---- MODULE Spec2Model ----
(***************************************************************************)
(* Model of the OAuth installation flow of slack_serverless:               *)
(*   - OAuthState / StateStore::verify_and_consume  (oauth/state_store.rs) *)
(*   - DynamoDbStateStore / DynamoDbInstallationStore                      *)
(*                                             (oauth/dynamodb_store.rs)   *)
(*   - OAuthFlow::start / complete / exchange_code      (oauth/flow.rs)    *)
(*   - LambdaHandler::handle_oauth_request      (adapter/aws_lambda.rs)    *)
(*   - LambdaHandler::handle_request / process_request / parse_body /      *)
(*     verify_signature                         (adapter/aws_lambda.rs)    *)
(*   - EventRouter, MiddlewareStack   (listener/mod.rs, middleware/mod.rs) *)
(*   - Context: Ack and Say            (context/ack.rs, context/mod.rs)    *)
(*   - StateStore::cleanup_expired                (oauth/state_store.rs)   *)
(*   - InstallationStore::save / find_by_team / delete                     *)
(*                                             (oauth/dynamodb_store.rs)   *)
(* Every await point of complete is one step, so that concurrent calls     *)
(* interleave on the shared tables exactly where the code can be           *)
(* suspended.  Time is counted in minutes.                                 *)
(***************************************************************************)
EXTENDS Integers, Sequences, FiniteSets, TLC

VARIABLES
    now,                \* Utc::now(), in minutes
    oauth_settings,     \* App.oauth_settings: "Some" or "None"
    state_table,        \* items of the DynamoDB table behind DynamoDbStateStore
    installation_table, \* items of the table behind DynamoDbInstallationStore
    starts,             \* per token: not started, or what the start that drew it returned
    last_installed,     \* per key, the Installation of the last save under it
    calls,              \* the OAuthFlow::complete calls, one record per call
    http,               \* the last callback handled by handle_oauth_request
    served,             \* the last request handled by LambdaHandler::handle_request
    classified,         \* the last input given to LambdaHandler::parse_body
    router,             \* EventRouter: the handler tables of the App's router
    middlewares,        \* MiddlewareStack.middlewares
    ran,                \* the handlers and middleware invoked so far, in order
    context,            \* the Contexts of the requests: their Acks and Says
    cleanups,           \* what the cleanup_expired calls made so far returned
    lookups             \* the last call made directly on the InstallationStore

vars == <<now, oauth_settings, state_table, installation_table, last_installed,
         starts, calls, http, served, classified, router, middlewares, ran,
         context, cleanups, lookups>>

----------------------------------------------------------------------------
\* Bounds of the model
MaxStarts == 1          \* start() calls, i.e. state tokens issued
MaxCalls == 2           \* complete() calls
MaxTime == 20           \* the clock stops here
MaxHandlers == 2        \* handlers and middleware registered
MaxOps == 3             \* calls on the Ack and the Say of one request

\* Duration::minutes(10) of OAuthState::new
StateTtlMinutes == 10

\* The clock advances by this much at a time, so that a record is seen
\* before, exactly at and after its expires_at
TickMinutes == StateTtlMinutes

None == "None"

Tokens == 1..MaxStarts              \* Uuid::new_v4(): a fresh token per start
ForgedToken == MaxStarts + 1        \* a token no start has issued
Presented == Tokens \cup {ForgedToken}
CallIds == 1..MaxCalls

Teams == {"T1"}
Enterprises == {None, "E1"}
BotTokens == {None, "xoxb-1"}
UserTokens == {None}
PlatformErrors == {None, "invalid_code"}

ClientId == "client-1"                      \* OAuthFlow.client_id
RedirectUri == "https://app/redirect"       \* OAuthFlow.redirect_uri
Scopes == <<"chat:write", "commands">>      \* OAuthFlow.scopes
UserScopes == <<>>                          \* OAuthFlow.user_scopes

----------------------------------------------------------------------------
\* SlackError values (error.rs)
OAuthErr(msg) == [kind |-> "OAuth", msg |-> msg]
DynamoDbErr(op) == [kind |-> "DynamoDb", msg |-> op]    \* op: the call that failed
HttpErr == [kind |-> "Http", msg |-> "reqwest"]
OkResult == [kind |-> "Ok", msg |-> ""]
NoResult == [kind |-> "-", msg |-> ""]

InvalidState == OAuthErr("Invalid or expired state")

----------------------------------------------------------------------------
\* OAuthState (state_store.rs)

\* OAuthState::new().with_redirect_uri(uri), built at time t with token tok
NewOAuthState(tok, t, uri) ==
    [state |-> tok, redirect_uri |-> uri,
     created_at |-> t, expires_at |-> t + StateTtlMinutes]

\* Mutant of is_expired: compares the wrong timestamp
is_expired_created_at(s, t) == s.created_at > t

\* OAuthState::is_expired, Utc::now() = t
is_expired(s, t) == s.expires_at < t

\* OAuthState::is_valid
is_valid(s, tok, t) == ~is_expired(s, t) /\ s.state = tok

----------------------------------------------------------------------------
\* DynamoDbStateStore (dynamodb_store.rs): a table keyed by "state"

\* Mutant of state_save: nothing is written
state_save_noop(table, s) == table

\* put_item: replaces the item of the same key
state_save(table, s) == {i \in table : i.state # s.state} \cup {s}

\* get_item by key, as an Option: {} when there is no item, else {item}
state_find(table, tok) == {i \in table : i.state = tok}

\* StateStore::cleanup_expired, the trait's default and DynamoDbStateStore's:
\* Ok(0); no item is read or deleted
cleanup_expired(table) == [table |-> table, removed |-> 0]

\* Mutant of state_delete: the item is left in the table
state_delete_noop(table, tok) == table

\* delete_item by key; deleting a missing key succeeds
state_delete(table, tok) == {i \in table : i.state # tok}

----------------------------------------------------------------------------
\* Installation (installation_store.rs)

\* A string list joined by "," (Vec<String>::join): the pieces with a ","
\* between neighbours; the empty list gives the empty string.
RECURSIVE JoinComma(_)
JoinComma(list) ==
    IF list = <<>> THEN <<>>
    ELSE IF Len(list) = 1 THEN <<list[1]>>
    ELSE <<list[1], ",">> \o JoinComma(Tail(list))

\* Installation::new(team_id) at time t
NewInstallation(team_id, t) ==
    [team_id |-> team_id, enterprise_id |-> None,
     bot_token |-> None, bot_user_id |-> None,
     user_token |-> None, user_id |-> None,
     scopes |-> <<>>, user_scopes |-> <<>>,
     installed_at |-> t, expires_at |-> None]

with_scopes(inst, scopes) == [inst EXCEPT !.scopes = scopes]
with_bot_token(inst, token, user_id) ==
    [inst EXCEPT !.bot_token = token, !.bot_user_id = user_id]
with_user_token(inst, token, user_id) ==
    [inst EXCEPT !.user_token = token, !.user_id = user_id]
with_enterprise_id(inst, enterprise_id) ==
    [inst EXCEPT !.enterprise_id = enterprise_id]

----------------------------------------------------------------------------
\* DynamoDbInstallationStore (dynamodb_store.rs): a table whose key is
\* (team_id, enterprise_id), the enterprise id of an installation without
\* one being stored as "NONE".

EnterpriseKey(enterprise_id) ==
    IF enterprise_id = None THEN "NONE" ELSE enterprise_id

\* installation_to_item: absent optional attributes are left out (None here)
installation_to_item(inst) ==
    [team_id |-> inst.team_id,
     enterprise_id |-> EnterpriseKey(inst.enterprise_id),
     bot_token |-> inst.bot_token, bot_user_id |-> inst.bot_user_id,
     user_token |-> inst.user_token, user_id |-> inst.user_id,
     scopes |-> JoinComma(inst.scopes),
     user_scopes |-> JoinComma(inst.user_scopes),
     installed_at |-> inst.installed_at, expires_at |-> inst.expires_at]

ItemKey(item) == <<item.team_id, item.enterprise_id>>

\* Mutant of put_item: the item is added beside the one of the same key
put_item_append(table, item) == table \cup {item}

\* put_item: the new item replaces the item of the same key, if any
put_item(table, item) ==
    {i \in table : ItemKey(i) # ItemKey(item)} \cup {item}

\* str::split(',') on a string given by its pieces: the fields between the
\* "," pieces, in order.  The empty string has one field, the empty one.
RECURSIVE SplitFrom(_, _)
SplitFrom(s, field) ==
    IF s = <<>> THEN <<field>>
    ELSE IF s[1] = "," THEN <<field>> \o SplitFrom(Tail(s), "")
    ELSE SplitFrom(Tail(s), field \o s[1])

SplitComma(s) == SplitFrom(s, "")

\* item_to_installation, of an item that has its team_id (every item of the
\* table has: it is a key attribute): the enterprise id "NONE" is read as
\* none, scopes and user_scopes are split at the commas
item_to_installation(item) ==
    [team_id |-> item.team_id,
     enterprise_id |-> IF item.enterprise_id = "NONE" THEN None
                       ELSE item.enterprise_id,
     bot_token |-> item.bot_token, bot_user_id |-> item.bot_user_id,
     user_token |-> item.user_token, user_id |-> item.user_id,
     scopes |-> SplitComma(item.scopes),
     user_scopes |-> SplitComma(item.user_scopes),
     installed_at |-> item.installed_at, expires_at |-> item.expires_at]

\* DynamoDbInstallationStore::find_by_team: get_item under (team_id,
\* enterprise id or "NONE"), as an Option
find_by_team(table, team_id, enterprise_id) ==
    {item_to_installation(i) :
        i \in {x \in table : ItemKey(x) = <<team_id, EnterpriseKey(enterprise_id)>>}}

\* DynamoDbInstallationStore::delete: delete_item under the same key
installation_delete(table, team_id, enterprise_id) ==
    {x \in table : ItemKey(x) # <<team_id, EnterpriseKey(enterprise_id)>>}

\* Mutant of save: an item already under the key keeps its bot_user_id
\* attribute, the other attributes are overwritten
installation_save_merge(table, inst) ==
    LET item == installation_to_item(inst)
        old  == {i \in table : ItemKey(i) = ItemKey(item)}
    IN  IF old = {} THEN put_item(table, item)
        ELSE put_item(table,
                 [item EXCEPT !.bot_user_id = (CHOOSE o \in old : TRUE).bot_user_id])

\* DynamoDbInstallationStore::save: one put_item of the whole item
installation_save(table, inst) == put_item(table, installation_to_item(inst))

----------------------------------------------------------------------------
\* The token endpoint's reply to exchange_code (flow.rs).  "required" says
\* whether the JSON body carries app_id, team and authed_user, the fields
\* OAuthAccessResponse declares without Option.

SuccessReplies ==
    [sent : {TRUE}, ok : {TRUE}, error : {None}, required : {TRUE},
     team_id : Teams, enterprise : Enterprises,
     access_token : BotTokens, bot_user_id : {"B1"},
     user_token : UserTokens, user_id : {"U1"}]

ErrorReplies ==
    [sent : {TRUE}, ok : {FALSE}, error : PlatformErrors, required : BOOLEAN,
     team_id : {"T1"}, enterprise : {None},
     access_token : {None}, bot_user_id : {None},
     user_token : {None}, user_id : {"U1"}]

\* send() itself failed: there is no reply to read
SendFailed ==
    [sent |-> FALSE, ok |-> FALSE, error |-> None, required |-> FALSE,
     team_id |-> "T1", enterprise |-> None,
     access_token |-> None, bot_user_id |-> None,
     user_token |-> None, user_id |-> "U1"]

Replies == SuccessReplies \cup ErrorReplies \cup {SendFailed}

\* Successful replies with what the platform granted: scope is the list of
\* bot scopes granted (OAuthAccessResponse.scope), user_scope the list of
\* user scopes granted (AuthedUser.scope), either what the app asked for or
\* less; the reply may carry a user token (AuthedUser.access_token).
GrantReplies ==
    [sent : {TRUE}, ok : {TRUE}, error : {None}, required : {TRUE},
     team_id : Teams, enterprise : Enterprises,
     access_token : BotTokens, bot_user_id : {"B1"},
     user_token : {None, "xoxp-1"}, user_id : {"U1"},
     scope : {Scopes, <<"chat:write">>},
     user_scope : {UserScopes, <<"users:read">>}]

\* response.json::<OAuthAccessResponse>(): fails on a body that lacks a
\* field the struct requires
json_decodes(reply) == reply.required

\* OAuthFlow::exchange_code: the error it returns, or OkResult
exchange_code(reply) ==
    IF ~reply.sent THEN HttpErr
    ELSE IF ~json_decodes(reply) THEN HttpErr
    ELSE IF ~reply.ok
         THEN OAuthErr(IF reply.error = None THEN "Unknown OAuth error"
                       ELSE reply.error)
    ELSE OkResult

\* OAuthFlow::complete, lines 67-81: the Installation built from the reply
build_installation(reply, t) ==
    LET i0 == with_scopes(NewInstallation(reply.team_id, t), Scopes)
        i1 == IF reply.access_token # None
              THEN with_bot_token(i0, reply.access_token,
                        IF reply.bot_user_id = None THEN "" ELSE reply.bot_user_id)
              ELSE i0
        i2 == IF reply.user_token # None
              THEN with_user_token(i1, reply.user_token, reply.user_id)
              ELSE i1
    IN  IF reply.enterprise # None
        THEN with_enterprise_id(i2, reply.enterprise)
        ELSE i2

\* OAuthFlow::start, lines 44-56: the query pairs of the authorization URL
\* built for the saved OAuthState s
authorization_url(s) ==
    [client_id |-> ClientId,
     scope |-> JoinComma(Scopes),
     redirect_uri |-> RedirectUri,
     state |-> s.state,
     user_scope |-> IF UserScopes = <<>> THEN {} ELSE {JoinComma(UserScopes)}]

----------------------------------------------------------------------------
\* LambdaHandler::handle_oauth_request (aws_lambda.rs): the response to a
\* classified OAuth callback.  It reads the request and the App only.

OAuthRequests ==
    [code : {None, "c1"},
     state : {{}} \cup {{t} : t \in Presented},     \* Option<String>
     error : {None, "access_denied"}]

Response(status, kind, text, location) ==
    [status_code |-> status, body |-> kind, text |-> text, location |-> location]

\* Mutant of handle_oauth_request: code and state are looked at before error
handle_oauth_request_code_first(settings, oauth_req) ==
    IF settings = "Some"
    THEN IF oauth_req.code # None /\ oauth_req.state # {}
         THEN Response(200, "Text", "Installation successful!", None)
         ELSE IF oauth_req.error # None
              THEN Response(400, "Text", "OAuth error: " \o oauth_req.error, None)
              ELSE Response(302, "Empty", "", "https://slack.com/oauth/v2/authorize")
    ELSE Response(404, "Empty", "", None)

handle_oauth_request(settings, oauth_req) ==
    IF settings = "Some"
    THEN IF oauth_req.error # None
         THEN Response(400, "Text", "OAuth error: " \o oauth_req.error, None)
         ELSE IF oauth_req.code # None /\ oauth_req.state # {}
              THEN Response(200, "Text", "Installation successful!", None)
              ELSE Response(302, "Empty", "", "https://slack.com/oauth/v2/authorize")
    ELSE Response(404, "Empty", "", None)

----------------------------------------------------------------------------
\* State

\* What exchange_code looks at in a reply
ReplySummary(reply) ==
    [sent |-> reply.sent, required |-> reply.required,
     ok |-> reply.ok, error |-> reply.error]

IdleCall ==
    [pc |-> "idle",
     state |-> ForgedToken,     \* the state argument of complete
     prior |-> {},              \* results of the calls with the same state that
                                \*   had returned when this one was made
     existed |-> FALSE,         \* the store held a record of the token then
     past_expiry |-> FALSE,     \*   and its expires_at was in the past
     oauth_state |-> {},        \* what find returned
     valid |-> FALSE,           \* is_valid of it
     deleted |-> FALSE,         \* delete returned Ok
     reply |-> {},              \* summary of the token endpoint's reply
     installation |-> {},       \* the Installation built
     saved |-> FALSE,           \* InstallationStore.save returned Ok
     result |-> NoResult]       \* what complete returned

\* What a start call returned: nothing yet, Err, or Ok(url)
NotStarted == [outcome |-> "unused", url |-> {}]
StartFailed == [outcome |-> "failed", url |-> {}]
Started(url) == [outcome |-> "saved", url |-> {url}]

issued == {t \in Tokens : starts[t].outcome = "saved"}

\* EventRouter::new: four empty maps from a discriminator to its handlers
\* and the empty list of message handlers
NewEventRouter ==
    [event_handlers |-> {}, command_handlers |-> {}, action_handlers |-> {},
     shortcut_handlers |-> {}, message_handlers |-> <<>>]

Keys == Teams \X {EnterpriseKey(e) : e \in Enterprises}

Init ==
    /\ now = 0
    /\ oauth_settings = "Some"
    /\ state_table = {}
    /\ installation_table = {}
    /\ last_installed = [k \in Keys |-> {}]
    /\ starts = [t \in Tokens |-> NotStarted]
    /\ calls = [c \in CallIds |-> IdleCall]
    /\ http = {}
    /\ router = NewEventRouter
    /\ middlewares = <<>>
    /\ ran = <<>>
    /\ context = {}
    /\ cleanups = {}
    /\ lookups = {}
    /\ served = {}
    /\ classified = {}

InFlight(c) == calls[c].pc \notin {"idle", "done"}
Done(c) == calls[c].pc = "done"

\* complete returns: its locals are dropped, the result stays
Return(c, fields, result) ==
    calls' = [calls EXCEPT ![c] =
        [fields EXCEPT !.pc = "done", !.result = result,
                       !.oauth_state = {}, !.installation = {}]]

\* complete(code, tok) is called as call c
Called(c, tok) ==
    [IdleCall EXCEPT
        !.state = tok,
        !.prior = {calls[d].result :
                     d \in {e \in CallIds : Done(e) /\ calls[e].state = tok}},
        !.existed = state_find(state_table, tok) # {},
        !.past_expiry = \E s \in state_find(state_table, tok) : s.expires_at < now]

----------------------------------------------------------------------------
\* Time passes
Tick ==
    /\ now + TickMinutes <= MaxTime
    /\ now' = now + TickMinutes
    /\ UNCHANGED <<oauth_settings, state_table, installation_table,
                   last_installed, starts, calls, http, served, classified,
                   router, middlewares, ran, context, cleanups, lookups>>

\* OAuthFlow::start: a fresh token, its record saved, the URL returned
StartOk ==
    /\ \E t \in Tokens :
        /\ starts[t] = NotStarted
        /\ \A u \in Tokens : u < t => starts[u] # NotStarted
        /\ LET state == NewOAuthState(t, now, RedirectUri)
           IN  /\ state_table' = state_save(state_table, state)
               /\ starts' = [starts EXCEPT ![t] = Started(authorization_url(state))]
    /\ UNCHANGED <<now, oauth_settings, installation_table, last_installed, calls, http,
                   served, classified,
                   router, middlewares, ran, context, cleanups, lookups>>

\* OAuthFlow::start when state_store.save fails: the error, no URL
StartSaveFails ==
    /\ \E t \in Tokens :
        /\ starts[t] = NotStarted
        /\ \A u \in Tokens : u < t => starts[u] # NotStarted
        /\ starts' = [starts EXCEPT ![t] = StartFailed]
    /\ UNCHANGED <<now, oauth_settings, state_table, installation_table,
                   last_installed, calls, http, served, classified,
                   router, middlewares, ran, context, cleanups, lookups>>

\* A client calls complete(code, state) with a token it was given or with
\* one it made up; verify_and_consume's find answers and is_valid is
\* evaluated on what it found.
CompleteFind(c, tok) ==
    /\ calls[c].pc = "idle"
    /\ \A d \in CallIds : d < c => calls[d].pc # "idle"
    /\ tok \in issued \cup {ForgedToken}
    /\ LET found == state_find(state_table, tok)
       IN  IF found = {}
           THEN Return(c, Called(c, tok), InvalidState)
           ELSE calls' = [calls EXCEPT ![c] =
                    [Called(c, tok) EXCEPT !.pc = "delete", !.oauth_state = found,
                        !.valid = \A s \in found : is_valid(s, tok, now)]]
    /\ UNCHANGED <<now, oauth_settings, state_table, installation_table,
                   last_installed, starts, http, served, classified,
                   router, middlewares, ran, context, cleanups, lookups>>

\* complete is called and verify_and_consume's find fails
CompleteFindFails(c, tok) ==
    /\ calls[c].pc = "idle"
    /\ \A d \in CallIds : d < c => calls[d].pc # "idle"
    /\ tok \in issued \cup {ForgedToken}
    /\ Return(c, Called(c, tok), DynamoDbErr("find"))
    /\ UNCHANGED <<now, oauth_settings, state_table, installation_table,
                   last_installed, starts, http, served, classified,
                   router, middlewares, ran, context, cleanups, lookups>>

\* verify_and_consume: delete answers, in the valid and in the clean-up branch
Delete(c) ==
    /\ calls[c].pc = "delete"
    /\ state_table' = state_delete(state_table, calls[c].state)
    /\ IF calls[c].valid
       THEN calls' = [calls EXCEPT ![c] = [@ EXCEPT !.pc = "exchange", !.deleted = TRUE]]
       ELSE Return(c, [calls[c] EXCEPT !.deleted = TRUE], InvalidState)
    /\ UNCHANGED <<now, oauth_settings, installation_table, last_installed, starts, http,
                   served, classified,
                   router, middlewares, ran, context, cleanups, lookups>>

\* verify_and_consume: delete fails
DeleteFails(c) ==
    /\ calls[c].pc = "delete"
    /\ Return(c, calls[c], DynamoDbErr("delete"))
    /\ UNCHANGED <<now, oauth_settings, state_table, installation_table,
                   last_installed, starts, http, served, classified,
                   router, middlewares, ran, context, cleanups, lookups>>

\* exchange_code, then the Installation is built
Exchange(c, reply) ==
    /\ calls[c].pc = "exchange"
    /\ LET err == exchange_code(reply)
           got == [calls[c] EXCEPT !.reply = {ReplySummary(reply)}]
       IN  IF err # OkResult
           THEN Return(c, got, err)
           ELSE calls' = [calls EXCEPT ![c] =
                    [got EXCEPT !.pc = "save",
                        !.installation = {build_installation(reply, now)}]]
    /\ UNCHANGED <<now, oauth_settings, state_table, installation_table,
                   last_installed, starts, http, served, classified,
                   router, middlewares, ran, context, cleanups, lookups>>

\* installation_store.save answers: complete returns the Installation
Save(c) ==
    /\ calls[c].pc = "save"
    /\ \E inst \in calls[c].installation :
        /\ installation_table' = installation_save(installation_table, inst)
        /\ last_installed' =
             [last_installed EXCEPT
                ![<<inst.team_id, EnterpriseKey(inst.enterprise_id)>>] = {inst}]
    /\ Return(c, [calls[c] EXCEPT !.saved = TRUE], OkResult)
    /\ UNCHANGED <<now, oauth_settings, state_table, starts, http, served, classified,
                   router, middlewares, ran, context, cleanups, lookups>>

\* installation_store.save fails
SaveFails(c) ==
    /\ calls[c].pc = "save"
    /\ Return(c, calls[c], DynamoDbErr("save"))
    /\ UNCHANGED <<now, oauth_settings, state_table, installation_table,
                   last_installed, starts, http, served, classified,
                   router, middlewares, ran, context, cleanups, lookups>>

\* The future of complete is dropped while it waits at an await point (the
\* request was cancelled): its locals are dropped and it returns nothing.
\* The store operation it was waiting for is one request to the table, which
\* had either been applied as a whole or not at all (applied); the token
\* endpoint's answer is lost.
Cancel(c, applied) ==
    /\ calls[c].pc \in {"delete", "exchange", "save"}
    /\ calls' = [calls EXCEPT ![c] =
            [@ EXCEPT !.pc = "dropped at " \o calls[c].pc,
                      !.oauth_state = {}, !.installation = {}]]
    /\ state_table' =
            IF applied /\ calls[c].pc = "delete"
            THEN state_delete(state_table, calls[c].state)
            ELSE state_table
    /\ IF applied /\ calls[c].pc = "save"
       THEN \E inst \in calls[c].installation :
              /\ installation_table' = installation_save(installation_table, inst)
              /\ last_installed' =
                   [last_installed EXCEPT
                      ![<<inst.team_id, EnterpriseKey(inst.enterprise_id)>>] = {inst}]
       ELSE UNCHANGED <<installation_table, last_installed>>
    /\ UNCHANGED <<now, oauth_settings, starts, http, served, classified,
                   router, middlewares, ran, context, cleanups, lookups>>

\* cleanup_expired runs, on its own schedule.  It has no await inside, so it
\* is one step; cleanups keeps what it returned, which complete calls were
\* between their find and their delete then (0 when none was), which tokens
\* had expired when it ran and which of those it left in the table.
CleanupExpired ==
    /\ state_table' = cleanup_expired(state_table).table
    /\ cleanups' = cleanups \cup
         {[removed |-> cleanup_expired(state_table).removed, during |-> c,
           expired |-> {s.state : s \in {e \in state_table : is_expired(e, now)}},
           left    |-> {s.state : s \in {e \in cleanup_expired(state_table).table :
                                           is_expired(e, now)}}] :
            c \in {0} \cup {d \in CallIds : calls[d].pc = "delete"}}
    /\ UNCHANGED <<now, oauth_settings, installation_table, last_installed,
                   starts, calls, http, served, classified,
                   router, middlewares, ran, context, lookups>>

\* The pipeline hands a classified OAuth callback to handle_oauth_request
HandleOAuthRequest(req) ==
    /\ http' = {[req |-> req, resp |-> handle_oauth_request(oauth_settings, req)]}
    /\ UNCHANGED <<now, oauth_settings, state_table, installation_table,
                   last_installed, starts, calls, served, classified,
                   router, middlewares, ran, context, cleanups, lookups>>

----------------------------------------------------------------------------
\* Spec: the clients of one OAuthFlow, their complete calls running
\* concurrently
Next ==
    \/ Tick
    \/ StartOk
    \/ StartSaveFails
    \/ \E c \in CallIds, tok \in Presented : CompleteFind(c, tok)
    \/ \E c \in CallIds, tok \in Presented : CompleteFindFails(c, tok)
    \/ \E c \in CallIds : Delete(c)
    \/ \E c \in CallIds : DeleteFails(c)
    \/ \E c \in CallIds, reply \in Replies : Exchange(c, reply)
    \/ \E c \in CallIds : Save(c)
    \/ \E c \in CallIds : SaveFails(c)

Spec == Init /\ [][Next]_vars

\* SeqSpec: the same, but complete is called only when no other call runs
NoneInFlight == \A d \in CallIds : ~InFlight(d)

SeqNext ==
    \/ Tick
    \/ StartOk
    \/ StartSaveFails
    \/ \E c \in CallIds, tok \in Presented : NoneInFlight /\ CompleteFind(c, tok)
    \/ \E c \in CallIds, tok \in Presented : NoneInFlight /\ CompleteFindFails(c, tok)
    \/ \E c \in CallIds : Delete(c)
    \/ \E c \in CallIds : DeleteFails(c)
    \/ \E c \in CallIds, reply \in Replies : Exchange(c, reply)
    \/ \E c \in CallIds : Save(c)
    \/ \E c \in CallIds : SaveFails(c)

SeqSpec == Init /\ [][SeqNext]_vars

\* CleanupSpec: a complete call runs concurrently with cleanup_expired on the
\* same StateStore, the stores and the token endpoint answering
CleanupNext ==
    \/ Tick
    \/ StartOk
    \/ \E tok \in Presented : CompleteFind(1, tok)
    \/ Delete(1)
    \/ \E reply \in Replies : Exchange(1, reply)
    \/ Save(1)
    \/ CleanupExpired

CleanupSpec == Init /\ [][CleanupNext]_vars

\* CancelSpec: concurrent complete calls, the stores answering, each call
\* possibly cancelled at any of its await points
CancelNext ==
    \/ StartOk
    \/ \E c \in CallIds, tok \in Presented : CompleteFind(c, tok)
    \/ \E c \in CallIds : Delete(c)
    \/ \E c \in CallIds, reply \in Replies \cup GrantReplies : Exchange(c, reply)
    \/ \E c \in CallIds : Save(c)
    \/ \E c \in CallIds, applied \in BOOLEAN : Cancel(c, applied)

CancelSpec == Init /\ [][CancelNext]_vars

\* PipelineSpec: an App built with or without OAuth settings receives OAuth
\* callbacks while one client of an OAuthFlow on the same stores starts and
\* completes installations
PipelineInit ==
    /\ now = 0
    /\ oauth_settings \in {"Some", "None"}
    /\ state_table = {}
    /\ installation_table = {}
    /\ last_installed = [k \in Keys |-> {}]
    /\ starts = [t \in Tokens |-> NotStarted]
    /\ calls = [c \in CallIds |-> IdleCall]
    /\ http = {}
    /\ router = NewEventRouter
    /\ middlewares = <<>>
    /\ ran = <<>>
    /\ context = {}
    /\ cleanups = {}
    /\ lookups = {}
    /\ served = {}
    /\ classified = {}

PipelineNext ==
    \/ Tick
    \/ StartOk
    \/ StartSaveFails
    \/ \E tok \in Presented : CompleteFind(1, tok)
    \/ \E tok \in Presented : CompleteFindFails(1, tok)
    \/ Delete(1)
    \/ DeleteFails(1)
    \/ \E reply \in Replies : Exchange(1, reply)
    \/ Save(1)
    \/ SaveFails(1)
    \/ \E req \in OAuthRequests : HandleOAuthRequest(req)

PipelineSpec == PipelineInit /\ [][PipelineNext]_vars

----------------------------------------------------------------------------
\* The request pipeline of LambdaHandler (adapter/aws_lambda.rs)

\* More SlackError values (error.rs)
JsonErr == [kind |-> "Json", msg |-> "serde_json"]
InternalErr(msg) == [kind |-> "Internal", msg |-> msg]
InvalidSignature == [kind |-> "InvalidSignature", msg |-> ""]

\* A body is text.  The model writes a text as its syntax and its pieces:
\*   form  the pieces between '&': <<key, value>> for "key=value", still
\*         percent-encoded, and <<piece>> for a piece without '=';
\*   json  an object, one piece <<key, type, literal>> per member, in the
\*         order of the text, written compactly or with white space;
\*   text  anything else, e.g. an empty body or a cut-off "{".
\* Two bodies are the same text iff they are the same value.
FormBody(pieces) == [syntax |-> "form", layout |-> "compact", pieces |-> pieces]
JsonBody(members, layout) == [syntax |-> "json", layout |-> layout, pieces |-> members]
TextBody(text) == [syntax |-> "text", layout |-> "compact", pieces |-> <<<<text>>>>]

\* HashMap<String, String> as a set of <<key, value>> with distinct keys
map_insert(map, key, value) == {e \in map : e[1] # key} \cup {<<key, value>>}
map_get(map, key) == {e[2] : e \in {x \in map : x[1] = key}}    \* Option
map_keys(map) == {e[1] : e \in map}
unwrap_or(option, default) == IF option = {} THEN default ELSE CHOOSE v \in option : TRUE

\* urlencoding::decode on the keys and values of the model: %XX becomes the
\* byte XX, and the result is Err ({}) when the bytes are not UTF-8
decode(s) ==
    CASE s = "%70ayload" -> {"payload"}
      [] s = "%2Fdeploy" -> {"/deploy"}
      [] s = "%FF" -> {}
      [] OTHER -> {s}

\* Mutant of parse_form_data's loop: a pair that cannot be decoded is skipped
RECURSIVE insert_pairs_lenient(_, _)
insert_pairs_lenient(pieces, form_data) ==
    IF pieces = <<>> THEN [err |-> OkResult, form_data |-> form_data]
    ELSE LET pair == Head(pieces)
         IN  IF Len(pair) # 2 \/ decode(pair[1]) = {} \/ decode(pair[2]) = {}
             THEN insert_pairs_lenient(Tail(pieces), form_data)
             ELSE insert_pairs_lenient(Tail(pieces),
                        map_insert(form_data, unwrap_or(decode(pair[1]), ""),
                                              unwrap_or(decode(pair[2]), "")))

\* parse_form_data, lines 159-165: the loop over body.split('&')
RECURSIVE insert_pairs(_, _)
insert_pairs(pieces, form_data) ==
    IF pieces = <<>> THEN [err |-> OkResult, form_data |-> form_data]
    ELSE LET pair == Head(pieces)
         IN  IF Len(pair) # 2
             THEN insert_pairs(Tail(pieces), form_data)
             ELSE IF decode(pair[1]) = {}
             THEN [err |-> InternalErr("Failed to decode form key"), form_data |-> {}]
             ELSE IF decode(pair[2]) = {}
             THEN [err |-> InternalErr("Failed to decode form value"), form_data |-> {}]
             ELSE insert_pairs(Tail(pieces),
                        map_insert(form_data, unwrap_or(decode(pair[1]), ""),
                                              unwrap_or(decode(pair[2]), "")))

\* LambdaHandler::parse_form_data.  The json and text bodies of the model
\* hold no '=', so that none of their pieces is a pair.
parse_form_data(body) ==
    IF body.syntax = "form"
    THEN insert_pairs(body.pieces, {})
    ELSE [err |-> OkResult, form_data |-> {}]

\* The members of a JSON object under one key
json_members(body, key) ==
    {body.pieces[i] : i \in {j \in 1..Len(body.pieces) : body.pieces[j][1] = key}}

EventStrings == <<"token", "team_id", "api_app_id", "event_type">>

\* serde_json::from_str::<EventRequest>: Err ({}) unless the text is an
\* object with every field the struct requires, of the type it declares;
\* challenge may be absent or null; members under other keys are ignored
event_from_str(body) ==
    LET one(key, types) ==
            \E m \in json_members(body, key) :
                json_members(body, key) = {m} /\ m[2] \in types
        text(key) == (CHOOSE m \in json_members(body, key) : TRUE)[3]
        challenge == json_members(body, "challenge")
    IN  IF /\ body.syntax = "json"
           /\ \A i \in 1..Len(EventStrings) : one(EventStrings[i], {"string"})
           /\ one("event", {"string", "number", "object", "null"})
           /\ one("event_time", {"number"})
           /\ challenge = {} \/ one("challenge", {"string", "null"})
        THEN {[token |-> text("token"), team_id |-> text("team_id"),
               api_app_id |-> text("api_app_id"),
               event |-> (CHOOSE m \in json_members(body, "event") : TRUE),
               event_type |-> text("event_type"),
               event_time |-> text("event_time"),
               challenge |-> {m[3] : m \in {x \in challenge : x[2] = "string"}}]}
        ELSE {}

\* The payload values of the model and serde_json::from_str::<InteractiveRequest>
\* on them: Err ({}) for a value that is no JSON or lacks a required field
BlockActionsJson == "{token,team,user,actions,trigger_id,response_url}"
TruncatedJson == "{token"
interactive_from_str(payload) ==
    IF payload = BlockActionsJson
    THEN {[token |-> "tok", team |-> "{T1}", user |-> "{U1}",
           channel |-> {}, message |-> {}, actions |-> <<"{a1}">>,
           callback_id |-> {}, trigger_id |-> "trig", response_url |-> "https://hooks/r"]}
    ELSE {}

CommandFields ==
    <<"token", "team_id", "team_domain", "channel_id", "channel_name", "user_id",
      "user_name", "command", "text", "response_url", "trigger_id">>

\* serde_json::to_string of a body variant: the compact JSON object with the
\* struct's fields in declaration order, None written as null
OptionMember(key, option) ==
    IF option = {} THEN <<key, "null", "null">>
    ELSE <<key, "string", unwrap_or(option, "")>>

event_to_string(e) ==
    JsonBody(<< <<"token", "string", e.token>>,
                <<"team_id", "string", e.team_id>>,
                <<"api_app_id", "string", e.api_app_id>>,
                <<"event", e.event[2], e.event[3]>>,
                <<"event_type", "string", e.event_type>>,
                <<"event_time", "number", e.event_time>>,
                OptionMember("challenge", e.challenge) >>, "compact")

command_to_string(c) ==
    JsonBody([i \in 1..Len(CommandFields) |->
                <<CommandFields[i], "string", c[CommandFields[i]]>>], "compact")

interactive_to_string(r) ==
    JsonBody(<< <<"token", "string", r.token>>,
                <<"team", "object", r.team>>,
                <<"user", "object", r.user>>,
                OptionMember("channel", r.channel),
                OptionMember("message", r.message),
                <<"actions", "array", r.actions[1]>>,
                OptionMember("callback_id", r.callback_id),
                <<"trigger_id", "string", r.trigger_id>>,
                <<"response_url", "string", r.response_url>> >>, "compact")

oauth_to_string(o) ==
    JsonBody(<< OptionMember("code", IF o.code = None THEN {} ELSE {o.code}),
                OptionMember("state", o.state),
                OptionMember("error", IF o.error = None THEN {} ELSE {o.error}) >>,
             "compact")

\* SlackRequestBody: the variant and its value
Variant(name, value) == [variant |-> name, value |-> value]
Variants == {"Event", "Command", "Interactive", "OAuth", "Raw"}

to_string(slack_body) ==
    CASE slack_body.variant = "Event" -> event_to_string(slack_body.value)
      [] slack_body.variant = "Command" -> command_to_string(slack_body.value)
      [] slack_body.variant = "Interactive" -> interactive_to_string(slack_body.value)
      [] slack_body.variant = "OAuth" -> oauth_to_string(slack_body.value)
      [] OTHER -> slack_body.value

\* A header value: a string, or the "v0=<hex>" of a MAC
Str(s) == [text |-> s, mac |-> {}]

\* HashMap<String, String> of headers as a set of [name, value]; get is by
\* the exact name
headers_get(headers, name) == {h.value : h \in {x \in headers : x.name = name}}

\* str::to_lowercase and str::contains on the content types of the model
to_lowercase(s) ==
    CASE s = "Application/JSON; charset=UTF-8" -> "application/json; charset=utf-8"
      [] OTHER -> s

contains(s, pattern) ==
    CASE pattern = "application/json" ->
            s \in {"application/json", "application/json; charset=utf-8"}
      [] pattern = "application/x-www-form-urlencoded" ->
            s \in {"application/x-www-form-urlencoded"}
      [] OTHER -> FALSE

\* Mutant of command_request: a missing field is None instead of ""
command_request_none(form_data) ==
    [f \in {CommandFields[i] : i \in 1..Len(CommandFields)} |->
        unwrap_or(map_get(form_data, f), None)]

\* parse_body, lines 126-138
command_request(form_data) ==
    [f \in {CommandFields[i] : i \in 1..Len(CommandFields)} |->
        unwrap_or(map_get(form_data, f), "")]

\* parse_body, lines 142-146
oauth_request(form_data) ==
    [code |-> unwrap_or(map_get(form_data, "code"), None),
     state |-> map_get(form_data, "state"),
     error |-> unwrap_or(map_get(form_data, "error"), None)]

Parsed(slack_body) == [err |-> OkResult, body |-> {slack_body}]
ParseFailed(error) == [err |-> error, body |-> {}]

\* Mutant of parse_body: the form keys are looked at in another order
parse_body_command_first(body, headers) ==
    LET content_type ==
            to_lowercase(unwrap_or(
                IF headers_get(headers, "content-type") # {}
                THEN headers_get(headers, "content-type")
                ELSE headers_get(headers, "Content-Type"), Str("")).text)
        form == parse_form_data(body)
        form_data == form.form_data
    IN  IF contains(content_type, "application/json")
        THEN IF event_from_str(body) = {} THEN ParseFailed(JsonErr)
             ELSE Parsed(Variant("Event", unwrap_or(event_from_str(body), "")))
        ELSE IF contains(content_type, "application/x-www-form-urlencoded")
        THEN IF form.err # OkResult THEN ParseFailed(form.err)
             ELSE IF "command" \in map_keys(form_data)
             THEN Parsed(Variant("Command", command_request(form_data)))
             ELSE IF map_get(form_data, "payload") # {}
             THEN LET payload == unwrap_or(map_get(form_data, "payload"), "")
                  IN  IF interactive_from_str(payload) = {} THEN ParseFailed(JsonErr)
                      ELSE Parsed(Variant("Interactive",
                                unwrap_or(interactive_from_str(payload), "")))
             ELSE IF "code" \in map_keys(form_data) \/ "error" \in map_keys(form_data)
             THEN Parsed(Variant("OAuth", oauth_request(form_data)))
             ELSE Parsed(Variant("Raw", body))
        ELSE Parsed(Variant("Raw", body))

\* LambdaHandler::parse_body
parse_body(body, headers) ==
    LET content_type ==
            to_lowercase(unwrap_or(
                IF headers_get(headers, "content-type") # {}
                THEN headers_get(headers, "content-type")
                ELSE headers_get(headers, "Content-Type"), Str("")).text)
        form == parse_form_data(body)
        form_data == form.form_data
    IN  IF contains(content_type, "application/json")
        THEN IF event_from_str(body) = {} THEN ParseFailed(JsonErr)
             ELSE Parsed(Variant("Event", unwrap_or(event_from_str(body), "")))
        ELSE IF contains(content_type, "application/x-www-form-urlencoded")
        THEN IF form.err # OkResult THEN ParseFailed(form.err)
             ELSE IF map_get(form_data, "payload") # {}
             THEN LET payload == unwrap_or(map_get(form_data, "payload"), "")
                  IN  IF interactive_from_str(payload) = {} THEN ParseFailed(JsonErr)
                      ELSE Parsed(Variant("Interactive",
                                unwrap_or(interactive_from_str(payload), "")))
             ELSE IF "command" \in map_keys(form_data)
             THEN Parsed(Variant("Command", command_request(form_data)))
             ELSE IF "code" \in map_keys(form_data) \/ "error" \in map_keys(form_data)
             THEN Parsed(Variant("OAuth", oauth_request(form_data)))
             ELSE Parsed(Variant("Raw", body))
        ELSE Parsed(Variant("Raw", body))

\* LambdaHandler::to_slack_request: headers and body default to empty
to_slack_request(request) ==
    LET parsed == parse_body(request.body, request.headers)
    IN  [err |-> parsed.err,
         request |-> {[headers |-> request.headers, body |-> b] : b \in parsed.body}]

\* "v0=" + hex(HMAC-SHA256(secret, "v0:" + timestamp + ":" + body)), the
\* MAC taken as an injective function of its key and message
sign(body, timestamp, secret) ==
    [text |-> "v0=",
     mac |-> {[secret |-> secret, timestamp |-> timestamp, body |-> body]}]

SigningSecret == "signing-secret"       \* AppConfig.signing_secret
OtherSecret == "another-secret"         \* what a sender without the secret signs with

\* LambdaHandler::verify_signature on the SlackRequest built by to_slack_request
verify_signature(secret, request) ==
    LET timestamp == headers_get(request.headers, "x-slack-request-timestamp")
        signature == headers_get(request.headers, "x-slack-signature")
        body == IF request.body.variant = "Raw" THEN request.body.value
                ELSE to_string(request.body)
    IN  IF timestamp = {} THEN InvalidSignature
        ELSE IF signature = {} THEN InvalidSignature
        ELSE IF {sign(body, t.text, secret) : t \in timestamp} # signature
             THEN InvalidSignature
        ELSE OkResult

\* SlackResponse (response/mod.rs): empty, challenge; text and redirect are
\* built by handle_oauth_request
empty == Response(200, "Empty", "", None)
\* Mutant of challenge: the body does not carry the string it was given
challenge_blank(c) == Response(200, "Challenge", "", None)

\* SlackResponse::challenge
challenge(c) == Response(200, "Challenge", c, None)
Unauthorized == Response(401, "Empty", "", None)

\* Mutant of route_request: a response is returned though nothing was looked up
route_request_text(request) == {Response(200, "Text", "Hello!", None)}

\* EventRouter::route_request (listener/mod.rs): Ok(None) as an Option.  The
\* handler tables of the router are not read and no handler is called, so
\* that handling a request leaves ran as it is.
route_request(request) == {}

\* What process_request did: how far it got, what it invoked, what it returned
Outcome(parse, verify, variant, invoked, err, response) ==
    [parse |-> parse,           \* what to_slack_request returned: OkResult or the error
     verify |-> verify,         \* what verify_signature returned, NoResult if not called
     variant |-> variant,       \* the variant of the classified body, "-" if none
     invoked |-> invoked,       \* the dispatch targets called, in order
     err |-> err,               \* process_request's own result: OkResult or the error
     response |-> response]     \* Option: the SlackResponse of Ok(response)

\* process_request, lines 64-85: the match on the classified body
dispatch(settings, request, verify) ==
    LET body == request.body
        routed(target) ==
            Outcome(OkResult, verify, body.variant, <<target, "route_request">>, OkResult,
                    IF route_request(request) = {} THEN {empty}
                    ELSE route_request(request))
    IN  CASE body.variant = "Event" ->
                IF body.value.challenge # {}
                THEN Outcome(OkResult, verify, "Event", <<>>, OkResult,
                             {challenge(c) : c \in body.value.challenge})
                ELSE routed("handle_event_request")
          [] body.variant = "Command" -> routed("handle_command_request")
          [] body.variant = "Interactive" -> routed("handle_interactive_request")
          [] body.variant = "OAuth" ->
                Outcome(OkResult, verify, "OAuth", <<"handle_oauth_request">>, OkResult,
                        {handle_oauth_request(settings, body.value)})
          [] OTHER -> Outcome(OkResult, verify, "Raw", <<>>, OkResult, {empty})

\* Mutant of process_request: the result of verify_signature is ignored
process_request_unverified(settings, secret, request) ==
    LET slack_request == to_slack_request(request)
    IN  IF slack_request.err # OkResult
        THEN Outcome(slack_request.err, NoResult, "-", <<>>, slack_request.err, {})
        ELSE LET r == CHOOSE x \in slack_request.request : TRUE
             IN  dispatch(settings, r, verify_signature(secret, r))

\* LambdaHandler::process_request
process_request(settings, secret, request) ==
    LET slack_request == to_slack_request(request)
    IN  IF slack_request.err # OkResult
        THEN Outcome(slack_request.err, NoResult, "-", <<>>, slack_request.err, {})
        ELSE LET r == CHOOSE x \in slack_request.request : TRUE
                 verify == verify_signature(secret, r)
             IN  IF verify # OkResult
                 THEN Outcome(OkResult, verify, r.body.variant, <<>>, OkResult,
                              {Unauthorized})
                 ELSE dispatch(settings, r, verify)

\* ApiGatewayProxyResponse: the status and the body, None for an Empty body
ApiResponse(status, body) == [status_code |-> status, body |-> body]

\* LambdaHandler::to_api_gateway_response
to_api_gateway_response(response) ==
    ApiResponse(response.status_code,
                IF response.body = "Empty" THEN {}
                ELSE {[kind |-> response.body, text |-> response.text]})

\* Mutant of handle_request: the body of the 500 response is the error
handle_request_detail(settings, secret, request) ==
    LET outcome == process_request(settings, secret, request)
    IN  IF outcome.err = OkResult
        THEN to_api_gateway_response(CHOOSE r \in outcome.response : TRUE)
        ELSE ApiResponse(500, {[kind |-> "Plain",
                                text |-> outcome.err.kind \o ": " \o outcome.err.msg]})

\* LambdaHandler::handle_request, lines 36-47
handle_request(settings, secret, request) ==
    LET outcome == process_request(settings, secret, request)
    IN  IF outcome.err = OkResult
        THEN to_api_gateway_response(CHOOSE r \in outcome.response : TRUE)
        ELSE ApiResponse(500, {[kind |-> "Plain", text |-> "Internal Server Error"]})

----------------------------------------------------------------------------
\* The requests of the model

Header(name, value) == [name |-> name, value |-> value]
TextHeader(name, text) == Header(name, Str(text))

\* No content type, JSON, form, another one; under either spelling of the
\* header name that parse_body looks up
ContentTypeHeaders ==
    { {},
      {TextHeader("content-type", "application/json")},
      {TextHeader("Content-Type", "Application/JSON; charset=UTF-8")},
      {TextHeader("content-type", "application/x-www-form-urlencoded")},
      {TextHeader("Content-Type", "application/x-www-form-urlencoded")},
      {TextHeader("content-type", "text/plain")} }

SentTimestamp == "1700000000"       \* the timestamp the sender signed
OtherTimestamp == "1700000001"

TimestampHeaders ==
    { {},
      {TextHeader("x-slack-request-timestamp", SentTimestamp)},
      {TextHeader("X-Slack-Request-Timestamp", SentTimestamp)},
      {TextHeader("x-slack-request-timestamp", OtherTimestamp)} }

EventMembers ==
    << <<"token", "string", "tok">>, <<"team_id", "string", "T1">>,
       <<"api_app_id", "string", "A1">>, <<"event", "object", "{}">>,
       <<"event_type", "string", "app_mention">>, <<"event_time", "number", "1">> >>

JsonBodies ==
    { JsonBody(EventMembers \o << <<"challenge", "null", "null">> >>, "compact"),
      JsonBody(EventMembers \o << <<"challenge", "null", "null">> >>, "spaced"),
      JsonBody(EventMembers \o << <<"challenge", "string", "ch-1">> >>, "compact"),
      JsonBody(EventMembers \o << <<"challenge", "string", "">> >>, "compact"),
      JsonBody(EventMembers, "compact"),
      JsonBody(EventMembers \o << <<"type", "string", "event_callback">> >>, "compact"),
      \* the platform's url_verification body
      JsonBody(<< <<"token", "string", "tok">>, <<"challenge", "string", "ch-1">>,
                  <<"type", "string", "url_verification">> >>, "compact"),
      \* a url_verification body of type and challenge alone
      JsonBody(<< <<"type", "string", "url_verification">>,
                  <<"challenge", "string", "ch-1">> >>, "compact"),
      \* event_time of the wrong type
      JsonBody(<< <<"token", "string", "tok">>, <<"team_id", "string", "T1">>,
                  <<"api_app_id", "string", "A1">>, <<"event", "object", "{}">>,
                  <<"event_type", "string", "app_mention">>,
                  <<"event_time", "string", "soon">> >>, "compact") }

TextBodies == {TextBody(""), TextBody("{"), TextBody("hello")}

\* The value sent under a form key
FieldValue(key) ==
    CASE key = "command" -> "%2Fdeploy"
      [] key = "payload" -> BlockActionsJson
      [] key = "error" -> "access_denied"
      [] OTHER -> key \o "-1"

\* The form body "k1=v1&k2=v2..." of the keys of a list
FormOf(keys) == FormBody([i \in 1..Len(keys) |-> <<keys[i], FieldValue(keys[i])>>])

FormBodies ==
    { FormOf(CommandFields),
      FormOf(<<"command">>),
      FormOf(<<"payload">>),
      FormBody(<< <<"payload", TruncatedJson>> >>),
      FormOf(<<"%70ayload">>),
      FormBody(<< <<"%70ayload", BlockActionsJson>>, <<"command", "%2Fdeploy">> >>),
      FormOf(<<"payload", "command", "code", "error">>),
      FormOf(<<"command", "code", "state">>),
      FormOf(<<"code", "state">>),
      FormOf(<<"code">>),
      FormOf(<<"error", "code", "state">>),
      FormOf(<<"error">>),
      FormOf(<<"state">>),
      FormBody(<< <<"command", "%2Fdeploy">>, <<"text", "%FF">> >>),
      FormBody(<< <<"%FF", "x">> >>),
      FormBody(<< <<"text", "first">>, <<"command", "%2Fdeploy">>, <<"text", "second">> >>),
      FormBody(<< <<"no-equals-sign">> >>) }

Bodies == JsonBodies \cup TextBodies \cup FormBodies

\* The signatures a sender may put on (body, SentTimestamp): over the body
\* as sent, over another body, under another secret, and over the JSON text
\* that verify_signature computes from the classified body
Signatures(body, content_type) ==
    { sign(body, SentTimestamp, SigningSecret),
      sign(TextBody("hello!"), SentTimestamp, SigningSecret),
      sign(body, SentTimestamp, OtherSecret) }
    \cup { sign(to_string(v), SentTimestamp, SigningSecret) :
              v \in parse_body(body, content_type).body }

SignatureHeaders(body, content_type) ==
    { {} } \cup
    { {Header(name, s)} :
        name \in {"x-slack-signature", "X-Slack-Signature"},
        s \in Signatures(body, content_type) }

\* ApiGatewayProxyRequest: headers and body
Requests ==
    UNION { UNION { { [headers |-> ct \cup ts \cup sg, body |-> b] :
                        ts \in TimestampHeaders, sg \in SignatureHeaders(b, ct) } :
                    ct \in ContentTypeHeaders } :
            b \in Bodies }

\* Form bodies with every subset of the CommandPayload fields beside command
CommandBodies ==
    { FormOf(SelectSeq(CommandFields, LAMBDA f : f \in present \cup {"command"})) :
        present \in SUBSET {CommandFields[i] : i \in 1..Len(CommandFields)} }

\* Form bodies with every subset of the keys the variant is chosen by, among
\* other keys, in both orders, and with either kind of payload value
ChoiceKeys == <<"payload", "command", "code", "state", "error", "text">>
Reverse(seq) == [i \in 1..Len(seq) |-> seq[Len(seq) + 1 - i]]
ChoiceBodies ==
    UNION { LET keys == SelectSeq(ChoiceKeys, LAMBDA k : k \in present)
                pairs == FormOf(keys).pieces
                bad == [i \in 1..Len(keys) |->
                          IF keys[i] = "payload" THEN <<"payload", TruncatedJson>>
                          ELSE pairs[i]]
            IN  {FormBody(pairs), FormBody(Reverse(pairs)), FormBody(bad)} :
            present \in SUBSET {ChoiceKeys[i] : i \in 1..Len(ChoiceKeys)} }

ClassifyBodies == Bodies \cup CommandBodies \cup ChoiceBodies

----------------------------------------------------------------------------
\* RequestSpec: the Lambda runtime hands one request, any of Requests, to
\* the handler of an App built with or without OAuth settings
Received(request) == [request |-> request, outcome |-> {}, response |-> {}]

RequestInit ==
    /\ now = 0
    /\ oauth_settings \in {"Some", "None"}
    /\ state_table = {}
    /\ installation_table = {}
    /\ last_installed = [k \in Keys |-> {}]
    /\ starts = [t \in Tokens |-> NotStarted]
    /\ calls = [c \in CallIds |-> IdleCall]
    /\ http = {}
    /\ router = NewEventRouter
    /\ middlewares = <<>>
    /\ ran = <<>>
    /\ context = {}
    /\ cleanups = {}
    /\ lookups = {}
    /\ served \in {{Received(request)} : request \in Requests}
    /\ classified = {}

\* LambdaHandler::handle_request runs on the request received
HandleRequest ==
    /\ \E r \in served :
        /\ r.outcome = {}
        /\ served' =
             {[r EXCEPT
                !.outcome = {process_request(oauth_settings, SigningSecret, r.request)},
                !.response = {handle_request(oauth_settings, SigningSecret, r.request)}]}
    /\ UNCHANGED <<now, oauth_settings, state_table, installation_table,
                   last_installed, starts, calls, http, classified,
                   router, middlewares, ran, context, cleanups, lookups>>

RequestNext == HandleRequest

RequestSpec == RequestInit /\ [][RequestNext]_vars

\* ClassifySpec: parse_body is applied to one body and header map, any of
\* ClassifyBodies and ContentTypeHeaders, and then once more
ClassifyInit ==
    /\ now = 0
    /\ oauth_settings = "Some"
    /\ state_table = {}
    /\ installation_table = {}
    /\ last_installed = [k \in Keys |-> {}]
    /\ starts = [t \in Tokens |-> NotStarted]
    /\ calls = [c \in CallIds |-> IdleCall]
    /\ http = {}
    /\ router = NewEventRouter
    /\ middlewares = <<>>
    /\ ran = <<>>
    /\ context = {}
    /\ cleanups = {}
    /\ lookups = {}
    /\ served = {}
    /\ classified \in {{[body |-> body, headers |-> headers, result |-> {}, again |-> {}]} :
                          body \in ClassifyBodies, headers \in ContentTypeHeaders}

Classify ==
    /\ \E c \in classified :
        /\ c.result = {}
        /\ classified' = {[c EXCEPT !.result = {parse_body(c.body, c.headers)}]}
    /\ UNCHANGED <<now, oauth_settings, state_table, installation_table,
                   last_installed, starts, calls, http, served,
                   router, middlewares, ran, context, cleanups, lookups>>

ClassifyAgain ==
    /\ \E c \in classified :
        /\ c.result # {} /\ c.again = {}
        /\ classified' = {[c EXCEPT !.again = {parse_body(c.body, c.headers)}]}
    /\ UNCHANGED <<now, oauth_settings, state_table, installation_table,
                   last_installed, starts, calls, http, served,
                   router, middlewares, ran, context, cleanups, lookups>>

ClassifyNext == Classify \/ ClassifyAgain

ClassifySpec == ClassifyInit /\ [][ClassifyNext]_vars

----------------------------------------------------------------------------
\* The router and the middleware stack (listener/mod.rs, middleware/mod.rs)

\* SlackResponse::text
text(t) == Response(200, "Text", t, None)

\* A Result<SlackResponse>
Ok(response) == [err |-> OkResult, response |-> {response}]
Err(error) == [err |-> error, response |-> {}]

\* ListenerHandler: a closure, written as its name and what it returns when
\* it is called.  A returns an error, B returns what ack.text("Hello!") gave it.
Handlers ==
    { [name |-> "A", returns |-> Err(InternalErr("handler failed"))],
      [name |-> "B", returns |-> Ok(text("Hello!"))] }

\* MiddlewareHandler: a closure of (Context, Next).  M calls next and returns
\* its result, N returns its own response and O an error without calling next.
Middlewares ==
    { [name |-> "M", calls_next |-> TRUE, returns |-> Ok(empty)],
      [name |-> "N", calls_next |-> FALSE,
       returns |-> Ok(Response(403, "Text", "forbidden", None))],
      [name |-> "O", calls_next |-> FALSE,
       returns |-> Err(InternalErr("middleware failed"))] }

\* The keyed tables of EventRouter and the discriminators registered under:
\* the event type, the command and the action id of the requests of the
\* model, another command, and a shortcut callback id
RouteKeys ==
    { <<"event_handlers", "app_mention">>, <<"command_handlers", "/deploy">>,
      <<"command_handlers", "/hello">>, <<"action_handlers", "a1">>,
      <<"shortcut_handlers", "open_modal">> }

\* add_event_handler, add_command_handler, add_action_handler and
\* add_shortcut_handler: entry(key).or_insert_with(Vec::new).push(handler)
\* on the table named
add_handler(r, table, key, handler) ==
    [r EXCEPT ![table] =
        map_insert(@, key, Append(unwrap_or(map_get(@, key), <<>>), handler))]

\* EventRouter::add_message_handler
add_message_handler(r, handler) ==
    [r EXCEPT !.message_handlers = Append(@, handler)]

\* MiddlewareStack::add
add(stack, middleware) == Append(stack, middleware)

\* MiddlewareStack::execute: Ok(SlackResponse::empty()), no middleware called
execute(stack, request) == Ok(empty)

\* The requests routed: a slash command, a block action, an event and a
\* url_verification event, each with the content type of its body, the
\* timestamp and any of the signatures of Requests or none
RouteRequests ==
    { r \in Requests :
        /\ r.body \in
              { FormOf(CommandFields), FormOf(<<"payload">>),
                JsonBody(EventMembers \o << <<"challenge", "null", "null">> >>, "compact"),
                JsonBody(EventMembers \o << <<"challenge", "string", "ch-1">> >>, "compact") }
        /\ TextHeader("x-slack-request-timestamp", SentTimestamp) \in r.headers
        /\ \E h \in r.headers :
              /\ h.name = "content-type"
              /\ h.value.text = IF r.body.syntax = "json" THEN "application/json"
                                ELSE "application/x-www-form-urlencoded"
        /\ \A h \in r.headers : h.name # "X-Slack-Signature" }

\* RouteSpec: handlers and middleware are registered, and then the handler
\* of the App receives one request, any of RouteRequests
RouteInit ==
    /\ now = 0
    /\ oauth_settings = "Some"
    /\ state_table = {}
    /\ installation_table = {}
    /\ last_installed = [k \in Keys |-> {}]
    /\ starts = [t \in Tokens |-> NotStarted]
    /\ calls = [c \in CallIds |-> IdleCall]
    /\ http = {}
    /\ router = NewEventRouter
    /\ middlewares = <<>>
    /\ ran = <<>>
    /\ context = {}
    /\ cleanups = {}
    /\ lookups = {}
    /\ served \in {{Received(request)} : request \in RouteRequests}
    /\ classified = {}

\* The number of handlers in the keyed tables of a router
RECURSIVE handler_count(_, _)
handler_count(r, keys) ==
    IF keys = {} THEN 0
    ELSE LET k == CHOOSE x \in keys : TRUE
         IN  Len(unwrap_or(map_get(r[k[1]], k[2]), <<>>))
             + handler_count(r, keys \ {k})

\* Registration ends when the first request arrives
Registering ==
    /\ handler_count(router, RouteKeys) + Len(router.message_handlers)
          + Len(middlewares) < MaxHandlers
    /\ \A r \in served : r.outcome = {}

\* add_event_handler .. add_shortcut_handler is called
AddHandler(table, key, handler) ==
    /\ Registering
    /\ router' = add_handler(router, table, key, handler)
    /\ UNCHANGED <<now, oauth_settings, state_table, installation_table,
                   last_installed, starts, calls, http, served, classified,
                   middlewares, ran, context, cleanups, lookups>>

\* add_message_handler is called
AddMessageHandler(handler) ==
    /\ Registering
    /\ router' = add_message_handler(router, handler)
    /\ UNCHANGED <<now, oauth_settings, state_table, installation_table,
                   last_installed, starts, calls, http, served, classified,
                   middlewares, ran, context, cleanups, lookups>>

\* MiddlewareStack::add is called
AddMiddleware(middleware) ==
    /\ Registering
    /\ middlewares' = add(middlewares, middleware)
    /\ UNCHANGED <<now, oauth_settings, state_table, installation_table,
                   last_installed, starts, calls, http, served, classified,
                   router, ran, context, cleanups, lookups>>

RouteNext ==
    \/ \E k \in RouteKeys, h \in Handlers : AddHandler(k[1], k[2], h)
    \/ \E h \in Handlers : AddMessageHandler(h)
    \/ \E m \in Middlewares : AddMiddleware(m)
    \/ HandleRequest

RouteSpec == RouteInit /\ [][RouteNext]_vars

----------------------------------------------------------------------------
\* The Context of a request: Ack and Say (context/ack.rs, context/mod.rs)

\* Ack::new: the flag behind Arc<Mutex<bool>> starts false
NewAck == [acknowledged |-> FALSE]

\* Mutant of mark_acknowledged: the flag is flipped
mark_acknowledged_flip(ack) == [ack EXCEPT !.acknowledged = ~@]

\* Ack::mark_acknowledged.  No code panics while holding the lock, so that
\* lock() returns Ok.
mark_acknowledged(ack) == [ack EXCEPT !.acknowledged = TRUE]

\* Ack::is_acknowledged
is_acknowledged(ack) == ack.acknowledged

AckMethods == {"empty", "text", "blocks", "ephemeral", "in_channel"}
SayMethods == {"text", "blocks"}

\* Ack::empty, text, blocks, ephemeral, in_channel on the argument t: the
\* flag is set and Ok(response) returned, whatever the flag was.  A Text body
\* is written with its response_type when it has one.
ack_call(ack, method, t) ==
    [ack |-> mark_acknowledged(ack),
     result |->
        Ok(CASE method = "empty" -> empty
             [] method = "text" -> text(t)
             [] method = "blocks" -> Response(200, "Blocks", t, None)
             [] method = "ephemeral" -> Response(200, "Text/ephemeral", t, None)
             [] method = "in_channel" -> Response(200, "Text/in_channel", t, None))]

\* Mutant of say_call: the message sent counts as the acknowledgment
say_call_acknowledges(ack, method, t) ==
    [ack |-> mark_acknowledged(ack), result |-> [err |-> OkResult, response |-> {}]]

\* Say::text and Say::blocks: Ok(()), nothing is touched
say_call(ack, method, t) ==
    [ack |-> ack, result |-> [err |-> OkResult, response |-> {}]]

\* Mutant of context_new: the Ack of the new Context points at the flag of
\* the first request
context_new_shared(ctx) ==
    [ctx EXCEPT !.flags = Append(@, NewAck),
                !.handles = Append(@, [request |-> Len(ctx.flags) + 1, flag |-> 1])]

\* Context::new for one more request: Ack::new allocates a flag of its own
\* (Arc::new(Mutex::new(false))) and the Ack of the Context points at it.
\* flags are the flags allocated so far; a handle is an Ack value, the
\* request it belongs to and the flag its Arc points at.
context_new(ctx) ==
    [ctx EXCEPT !.flags = Append(@, NewAck),
                !.handles = Append(@, [request |-> Len(ctx.flags) + 1,
                                       flag |-> Len(ctx.flags) + 1])]

\* #[derive(Clone)] on Ack (and on Context, whose ack field is cloned the
\* same way): the Arc is cloned, so that the new Ack points at the same flag
ack_clone(ctx, h) == [ctx EXCEPT !.handles = Append(@, ctx.handles[h])]

\* is_acknowledged of every Ack there is
Seen(ctx) ==
    [h \in DOMAIN ctx.handles |-> is_acknowledged(ctx.flags[ctx.handles[h].flag])]

\* ContextSpec: handlers are given the Contexts of requests handled
\* concurrently (one at first), clone their Ack and call the methods of
\* their Ack and their Say, in any order
ContextInit ==
    /\ now = 0
    /\ oauth_settings = "Some"
    /\ state_table = {}
    /\ installation_table = {}
    /\ last_installed = [k \in Keys |-> {}]
    /\ starts = [t \in Tokens |-> NotStarted]
    /\ calls = [c \in CallIds |-> IdleCall]
    /\ http = {}
    /\ router = NewEventRouter
    /\ middlewares = <<>>
    /\ ran = <<>>
    /\ context = {context_new([flags |-> <<>>, handles |-> <<>>, log |-> <<>>])}
    /\ cleanups = {}
    /\ lookups = {}
    /\ served = {}
    /\ classified = {}

\* One operation on Ack h has returned and left the Contexts as next: the
\* log keeps what was called, is_acknowledged of that Ack and of every Ack
\* before and after it, and what the call returned
Returned(ctx, next, h, capability, method, result) ==
    /\ Len(ctx.log) < MaxOps
    /\ context' =
         {[next EXCEPT !.log = Append(ctx.log,
              [on |-> capability, method |-> method,
               handle |-> h, request |-> next.handles[h].request,
               before |-> IF h \in DOMAIN ctx.handles THEN Seen(ctx)[h]
                          ELSE Seen(next)[h],
               after |-> Seen(next)[h],
               seen_before |-> Seen(ctx), seen_after |-> Seen(next),
               result |-> result])]}
    /\ UNCHANGED <<now, oauth_settings, state_table, installation_table,
                   last_installed, starts, calls, http, served, classified,
                   router, middlewares, ran, cleanups, lookups>>

\* context.ack.<method>(t), on the Ack of a Context or on a clone of it
AckCall(method, t) ==
    \E ctx \in context : \E h \in DOMAIN ctx.handles :
        LET f == ctx.handles[h].flag
            done == ack_call(ctx.flags[f], method, t)
        IN  Returned(ctx, [ctx EXCEPT !.flags[f] = done.ack], h, "ack", method,
                     done.result)

\* context.say.<method>(t), on the Say of the request of Ack h
SayCall(method, t) ==
    \E ctx \in context : \E h \in DOMAIN ctx.handles :
        LET f == ctx.handles[h].flag
            done == say_call(ctx.flags[f], method, t)
        IN  Returned(ctx, [ctx EXCEPT !.flags[f] = done.ack], h, "say", method,
                     done.result)

\* Another request arrives and handle_*_request builds its Context
NewContext ==
    \E ctx \in context :
        Returned(ctx, context_new(ctx), Len(ctx.handles) + 1, "new", "new",
                 [err |-> OkResult, response |-> {}])

\* An Ack (or the Context that holds it) is cloned
CloneAck ==
    \E ctx \in context : \E h \in DOMAIN ctx.handles :
        Returned(ctx, ack_clone(ctx, h), Len(ctx.handles) + 1, "clone", "clone",
                 [err |-> OkResult, response |-> {}])

ContextNext ==
    \/ \E method \in AckMethods : AckCall(method, "Hello!")
    \/ \E method \in SayMethods : SayCall(method, "Hello!")
    \/ NewContext
    \/ CloneAck

ContextSpec == ContextInit /\ [][ContextNext]_vars

----------------------------------------------------------------------------
\* StoreSpec: save, find_by_team and delete are called on the
\* DynamoDbInstallationStore directly, as the InstallationStore trait lets
\* an application do

\* Enterprise ids an installation may have: none, an id, and the id that is
\* spelled like the key of none
StoreEnterprises == {None, "NONE", "E1"}
StorePairs == Teams \X StoreEnterprises

\* Installations built with Installation::new and its with_ methods, with
\* and without a bot token, scopes and user scopes
StoreInstallations ==
    {LET i0 == with_scopes(NewInstallation(t, 0), l[1])
         i1 == [i0 EXCEPT !.user_scopes = l[2]]
         i2 == IF b = None THEN i1 ELSE with_bot_token(i1, b, "B1")
     IN  IF e = None THEN i2 ELSE with_enterprise_id(i2, e) :
        t \in Teams, e \in StoreEnterprises, b \in BotTokens,
        l \in {<<Scopes, <<"users:read">> >>, <<Scopes, <<>> >>,
               << <<>>, <<"users:read">> >>}}

StoreInit ==
    /\ now = 0
    /\ oauth_settings = "Some"
    /\ state_table = {}
    /\ installation_table = {}
    /\ last_installed = [p \in StorePairs |-> {}]
    /\ starts = [t \in Tokens |-> NotStarted]
    /\ calls = [c \in CallIds |-> IdleCall]
    /\ http = {}
    /\ router = NewEventRouter
    /\ middlewares = <<>>
    /\ ran = <<>>
    /\ context = {}
    /\ cleanups = {}
    /\ lookups = {}
    /\ served = {}
    /\ classified = {}

\* The Installation given to the call before this one, if that was a save
JustSaved == UNION {l.given : l \in lookups}

\* store.save(inst) returns Ok; last_installed keeps, for the pair (team id,
\* enterprise id) of inst, that inst was the last one saved for it
StoreSave(inst) ==
    /\ installation_table' = installation_save(installation_table, inst)
    /\ last_installed' =
         [last_installed EXCEPT ![<<inst.team_id, inst.enterprise_id>>] = {inst}]
    /\ lookups' = {[op |-> "save", team_id |-> inst.team_id,
                    enterprise_id |-> inst.enterprise_id,
                    given |-> {inst}, after_save |-> {}, found |-> {}]}
    /\ UNCHANGED <<now, oauth_settings, state_table, starts, calls, http, served,
                   classified, router, middlewares, ran, context, cleanups>>

\* store.find_by_team(team_id, enterprise_id) returns Ok(found)
StoreFind(team_id, enterprise_id) ==
    /\ lookups' = {[op |-> "find", team_id |-> team_id,
                    enterprise_id |-> enterprise_id,
                    given |-> {}, after_save |-> JustSaved,
                    found |-> find_by_team(installation_table, team_id,
                                           enterprise_id)]}
    /\ UNCHANGED <<now, oauth_settings, state_table, installation_table,
                   last_installed, starts, calls, http, served,
                   classified, router, middlewares, ran, context, cleanups>>

\* store.delete(team_id, enterprise_id) returns Ok
StoreDelete(team_id, enterprise_id) ==
    /\ installation_table' =
         installation_delete(installation_table, team_id, enterprise_id)
    /\ last_installed' =
         [last_installed EXCEPT ![<<team_id, enterprise_id>>] = {}]
    /\ lookups' = {[op |-> "delete", team_id |-> team_id,
                    enterprise_id |-> enterprise_id,
                    given |-> {}, after_save |-> {}, found |-> {}]}
    /\ UNCHANGED <<now, oauth_settings, state_table, starts, calls, http, served,
                   classified, router, middlewares, ran, context, cleanups>>

StoreNext ==
    \/ \E inst \in StoreInstallations : StoreSave(inst)
    \/ \E p \in StorePairs : StoreFind(p[1], p[2])
    \/ \E p \in StorePairs : StoreDelete(p[1], p[2])

StoreSpec == StoreInit /\ [][StoreNext]_vars

----------------------------------------------------------------------------
\* Properties

Record(tok) == state_find(state_table, tok)
StateStoreErrors == {DynamoDbErr("find"), DynamoDbErr("delete")}
ExchangeSucceeded(c) == \A r \in calls[c].reply : r.sent /\ r.required /\ r.ok
Accepted(c) == calls[c].valid /\ calls[c].deleted   \* verify_and_consume gave Some

\* C1 (as stated): in a sequential run of complete calls with a token issued
\* by start, the first call succeeds unless the state is expired, the code
\* exchange fails or a store fails, and every call made after a successful
\* one fails with OAuth("Invalid or expired state").
C1_SingleUseOriginal ==
    \A c \in CallIds :
        Done(c) /\ calls[c].state \in Tokens =>
            /\ ( /\ calls[c].prior = {}
                 /\ ~calls[c].past_expiry
                 /\ calls[c].result.kind # "DynamoDb"
                 /\ ExchangeSucceeded(c) ) => calls[c].result = OkResult
            /\ OkResult \in calls[c].prior => calls[c].result = InvalidState

\* C1 (amended): the same, except that a call made after a successful one
\* fails with OAuth("Invalid or expired state") when its StateStore lookup
\* answers and with the storage error when the lookup fails; it never
\* succeeds.
C1_SingleUseSequential ==
    \A c \in CallIds :
        Done(c) /\ calls[c].state \in Tokens =>
            /\ ( /\ calls[c].prior = {}
                 /\ ~calls[c].past_expiry
                 /\ calls[c].result.kind # "DynamoDb"
                 /\ ExchangeSucceeded(c) ) => calls[c].result = OkResult
            /\ OkResult \in calls[c].prior =>
                 calls[c].result \in {InvalidState, DynamoDbErr("find")}

C1_Witness ==
    \E c, d \in CallIds :
        /\ Done(c) /\ Done(d) /\ calls[c].state \in Tokens
        /\ calls[d].state = calls[c].state
        /\ calls[c].prior = {} /\ calls[c].result = OkResult
        /\ OkResult \in calls[d].prior /\ calls[d].result = InvalidState

\* C2: of the complete calls that present one state token, at most one has
\* verify_and_consume return Some(state), whatever the interleaving.
C2_AtMostOneAccept ==
    \A t \in Tokens :
        Cardinality({c \in CallIds : calls[c].state = t /\ Accepted(c)}) <= 1

\* C3 (as stated): a complete call whose state record exists with expires_at
\* in the past returns OAuth("Invalid or expired state"), issues no code
\* exchange, writes no installation, and the record is gone from the store.
C3_ExpiredRejectedOriginal ==
    \A c \in CallIds :
        Done(c) /\ calls[c].existed /\ calls[c].past_expiry =>
            /\ calls[c].result = InvalidState
            /\ calls[c].reply = {} /\ ~calls[c].saved
            /\ Record(calls[c].state) = {}

\* C3 (amended): such a call never reaches the code exchange or the
\* installation write and never succeeds; when the StateStore's find and
\* delete both answer it returns OAuth("Invalid or expired state") and the
\* record is gone; when one of them fails it returns that storage error.
C3_ExpiredRejected ==
    \A c \in CallIds :
        calls[c].existed /\ calls[c].past_expiry =>
            /\ calls[c].pc \in {"delete", "done"}
            /\ calls[c].reply = {} /\ ~calls[c].saved
            /\ Done(c) => calls[c].result \in {InvalidState} \cup StateStoreErrors
            /\ Done(c) /\ calls[c].result = InvalidState =>
                 Record(calls[c].state) = {}

C3_Witness ==
    \E c \in CallIds :
        /\ Done(c) /\ calls[c].existed /\ calls[c].past_expiry
        /\ calls[c].deleted /\ calls[c].result = InvalidState

\* C4: a callback with code and state is answered with success only if its
\* state token was consumed by a complete that wrote an Installation, and a
\* callback whose token is unknown to the StateStore is answered with 400.
C4_SuccessOnlyAfterComplete ==
    \A h \in http :
        oauth_settings = "Some" /\ h.req.error = None
          /\ h.req.code # None /\ h.req.state # {} =>
            /\ h.resp.status_code = 200 =>
                 \E c \in CallIds :
                    /\ calls[c].state \in h.req.state
                    /\ Accepted(c) /\ calls[c].saved /\ calls[c].result = OkResult
            /\ ForgedToken \in h.req.state => h.resp.status_code = 400

\* C5: whenever a complete call has issued the code exchange, the record of
\* its state token is no longer in the StateStore; a call whose code
\* exchange failed has written no installation.
C5_DeletedBeforeExchange ==
    \A c \in CallIds :
        /\ (calls[c].pc \in {"exchange", "save"} \/ calls[c].reply # {}) =>
              calls[c].deleted /\ Record(calls[c].state) = {}
        /\ (Done(c) /\ calls[c].reply # {} /\ ~ExchangeSucceeded(c)) =>
              /\ ~calls[c].saved
              /\ calls[c].result.kind \in {"OAuth", "Http"}

C5_Witness ==
    \E c \in CallIds :
        /\ Done(c) /\ calls[c].state \in Tokens /\ calls[c].existed
        /\ calls[c].reply # {} /\ ~ExchangeSucceeded(c)
        /\ calls[c].result.kind = "OAuth"

\* C6 (as stated): once a complete call has returned, whatever its outcome,
\* the record of its state token is not in the StateStore.
C6_TerminalMeansDeletedOriginal ==
    \A c \in CallIds : Done(c) => Record(calls[c].state) = {}

\* C6 (amended): once a complete call has returned with any outcome other
\* than an error of the StateStore's find or delete (Installed, invalid or
\* expired state, token-exchange error, InstallationStore failure), the
\* record of its state token is not in the StateStore.
C6_TerminalMeansDeleted ==
    \A c \in CallIds :
        Done(c) /\ calls[c].result \notin StateStoreErrors =>
            Record(calls[c].state) = {}

C6_Witness ==
    \E c \in CallIds :
        /\ Done(c) /\ calls[c].existed
        /\ calls[c].result = DynamoDbErr("save")
        /\ Record(calls[c].state) = {}

\* C7 (as stated): a complete call succeeds only if no earlier complete call
\* with the same state token has failed.
C7_NoRetryOriginal ==
    \A c \in CallIds :
        Done(c) /\ calls[c].result = OkResult =>
            \A r \in calls[c].prior : r = OkResult

\* C7 (amended): a complete call succeeds only if every earlier failure of a
\* complete call with the same state token was an error of the StateStore's
\* find or delete; after any other failure (invalid or expired state,
\* token-exchange error, InstallationStore.save error) none succeeds.
C7_NoRetry ==
    \A c \in CallIds :
        Done(c) /\ calls[c].result = OkResult =>
            \A r \in calls[c].prior : r \in {OkResult} \cup StateStoreErrors

C7_Witness ==
    \E c \in CallIds :
        /\ Done(c) /\ calls[c].state \in Tokens
        /\ \E r \in calls[c].prior : r.kind \in {"OAuth", "Http"}
        /\ calls[c].result = InvalidState

\* C8 (as stated): a callback that carries an error parameter is answered
\* with HTTP 400 and the OAuth error text.
C8_ErrorCallbackOriginal ==
    \A h \in http :
        h.req.error # None =>
            /\ h.resp.status_code = 400
            /\ h.resp.body = "Text"
            /\ h.resp.text = "OAuth error: " \o h.req.error

\* C8 (amended): by an App built with OAuth settings a callback that carries
\* an error parameter is answered with HTTP 400 and the OAuth error text (by
\* an App without them, with an empty 404), and handling it changes neither
\* store and no complete call, whatever code and state accompany it.
C8_ErrorCallback ==
    /\ [](\A h \in http :
            h.req.error # None =>
                IF oauth_settings = "Some"
                THEN /\ h.resp.status_code = 400
                     /\ h.resp.body = "Text"
                     /\ h.resp.text = "OAuth error: " \o h.req.error
                ELSE h.resp.status_code = 404 /\ h.resp.body = "Empty")
    /\ [][(http' # http /\ \E h \in http' : h.req.error # None) =>
            UNCHANGED <<state_table, installation_table, last_installed,
                        starts, calls,
                   router, middlewares, ran, context, cleanups, lookups>>]_vars

C8_Witness ==
    \E h \in http :
        /\ oauth_settings = "Some"
        /\ h.req.error # None /\ h.req.code # None
        /\ \E t \in h.req.state : Record(t) # {}
        /\ h.resp.status_code = 400

\* C9: a complete call whose token endpoint reply has ok = false returns
\* OAuth(<the reply's error code>), or OAuth("Unknown OAuth error") when the
\* reply names none, and writes no installation.
C9_NotOkReplyIsOAuthError ==
    \A c \in CallIds :
        Done(c) =>
            \A r \in calls[c].reply :
                r.sent /\ ~r.ok =>
                    /\ calls[c].result =
                         OAuthErr(IF r.error = None THEN "Unknown OAuth error"
                                  ELSE r.error)
                    /\ ~calls[c].saved

\* C10: the InstallationStore holds, for every key (team id, enterprise id
\* or "NONE"), exactly the Installation of the last complete that saved
\* under that key, and nothing when there was none.
C10_OneRecordPerKey ==
    /\ \A i \in installation_table : ItemKey(i) \in Keys
    /\ \A k \in Keys :
         {i \in installation_table : ItemKey(i) = k}
            = {installation_to_item(x) : x \in last_installed[k]}

C10_Witness ==
    /\ \E c, d \in CallIds : c # d /\ calls[c].saved /\ calls[d].saved
    /\ Cardinality(installation_table) = 1

\* C11: whenever start returns an authorization URL, the URL embeds the
\* state token and the configured redirect URI, and the record of that
\* token is in the StateStore with expires_at = created_at + 10 minutes and
\* the configured redirect URI; whenever start returns the error of a failed
\* save, it returns no URL and the StateStore is unchanged.
C11_UrlOnlyAfterSave ==
    [][\A t \in Tokens :
        starts'[t] # starts[t] =>
            IF starts'[t].outcome = "saved"
            THEN /\ \E u \in starts'[t].url :
                        u.state = t /\ u.redirect_uri = RedirectUri
                 /\ \E s \in state_table' :
                        /\ s.state = t
                        /\ s.created_at = now
                        /\ s.expires_at = s.created_at + StateTtlMinutes
                        /\ s.redirect_uri = RedirectUri
            ELSE /\ starts'[t].url = {}
                 /\ state_table' = state_table]_vars

C11_Witness ==
    \E t \in Tokens :
        /\ starts[t].outcome = "saved"
        /\ \E u \in starts[t].url : u.state = t
        /\ \E s \in Record(t) : s.expires_at = s.created_at + StateTtlMinutes

\* The requests served, with what process_request did and what was answered
Handled == {r \in served : r.outcome # {}}
OutcomeOf(r) == CHOOSE o \in r.outcome : TRUE
ResponseOf(r) == CHOOSE a \in r.response : TRUE

\* The header of a request under any spelling of its name
TimestampNames == {"x-slack-request-timestamp", "X-Slack-Request-Timestamp"}
SignatureNames == {"x-slack-signature", "X-Slack-Signature"}
HeaderAnyCase(request, names) ==
    UNION {headers_get(request.headers, n) : n \in names}

\* The request carries no timestamp or no signature, or a signature that is
\* neither the one of its body as sent nor the one of the JSON text of its
\* classified body
Unsigned(request) ==
    LET timestamp == HeaderAnyCase(request, TimestampNames)
        signature == HeaderAnyCase(request, SignatureNames)
        texts == {request.body} \cup
                 {to_string(v) : v \in parse_body(request.body, request.headers).body}
    IN  \/ timestamp = {}
        \/ signature = {}
        \/ \A t \in timestamp, b \in texts :
              sign(b, t.text, SigningSecret) \notin signature

\* C12: every request that lacks the timestamp header or the signature
\* header, or whose signature is not the one computed from the secret, the
\* timestamp and the body, is answered with HTTP 401 and an empty body.
C12_UnsignedIs401 ==
    \A r \in Handled :
        Unsigned(r.request) => ResponseOf(r) = ApiResponse(401, {})

\* C13: a request that carries the timestamp and, as its signature,
\* sign(body as sent, timestamp, secret) passes verification, whichever
\* variant its body classifies to.
C13_SignedAsSentPasses ==
    \A r \in Handled :
        \A t \in headers_get(r.request.headers, "x-slack-request-timestamp") :
            ( /\ OutcomeOf(r).parse = OkResult
              /\ headers_get(r.request.headers, "x-slack-signature")
                    = {sign(r.request.body, t.text, SigningSecret)} )
            => OutcomeOf(r).verify = OkResult

\* C14: a request whose body classifies as Raw and that carries the
\* timestamp and the signature of its body under any spelling of the two
\* header names passes verification.
C14_HeaderNamesAnyCase ==
    \A r \in Handled :
        \A t \in HeaderAnyCase(r.request, TimestampNames) :
            ( /\ OutcomeOf(r).variant = "Raw"
              /\ HeaderAnyCase(r.request, SignatureNames)
                    = {sign(r.request.body, t.text, SigningSecret)} )
            => OutcomeOf(r).verify = OkResult

\* C15: the signature is verified before the body is classified: for every
\* request verify_signature has been called, and a request without a valid
\* signature gets InvalidSignature and HTTP 401 whether or not its body
\* parses.
C15_VerifiedBeforeClassified ==
    \A r \in Handled :
        /\ OutcomeOf(r).verify # NoResult
        /\ Unsigned(r.request) =>
              /\ OutcomeOf(r).verify = InvalidSignature
              /\ ResponseOf(r).status_code = 401

\* C16: the router and the OAuth callback handling are invoked for a request
\* only after to_slack_request and verify_signature both returned Ok; a
\* request failing classification is answered with the fixed 500 response, a
\* request failing verification with the fixed 401 response, and nothing is
\* invoked for either.
C16_DispatchOnlyAfterBoth ==
    \A r \in Handled :
        LET o == OutcomeOf(r)
        IN  /\ o.invoked # <<>> => o.parse = OkResult /\ o.verify = OkResult
            /\ o.parse # OkResult =>
                  /\ o.invoked = <<>>
                  /\ ResponseOf(r) =
                        ApiResponse(500, {[kind |-> "Plain",
                                           text |-> "Internal Server Error"]})
            /\ o.parse = OkResult /\ o.verify # OkResult =>
                  /\ o.invoked = <<>>
                  /\ ResponseOf(r) = ApiResponse(401, {})

C16_Witness ==
    \E r \in Handled :
        /\ OutcomeOf(r).variant = "Command"
        /\ OutcomeOf(r).verify = OkResult
        /\ OutcomeOf(r).invoked = <<"handle_command_request", "route_request">>
        /\ ResponseOf(r).status_code = 200

\* C17: a request whose body cannot be parsed into its chosen variant is
\* answered with HTTP 400.
C17_MalformedIs400 ==
    \A r \in Handled :
        OutcomeOf(r).parse # OkResult => ResponseOf(r).status_code = 400

\* The inputs parse_body has been applied to
Classified == {c \in classified : c.result # {}}

\* The content type of a header map, read off its text
IsJson(headers) ==
    \E h \in headers :
        h.value.text \in {"application/json", "Application/JSON; charset=UTF-8"}
IsForm(headers) ==
    ~IsJson(headers) /\ \E h \in headers :
        h.value.text = "application/x-www-form-urlencoded"

\* The "key=value" pieces of a form body, whether one of them cannot be
\* percent-decoded, and the decoded keys
Pairs(body) == {body.pieces[i] : i \in {j \in 1..Len(body.pieces) : Len(body.pieces[j]) = 2}}
Undecodable(body) ==
    body.syntax = "form" /\ \E p \in Pairs(body) : decode(p[1]) = {} \/ decode(p[2]) = {}
DecodedKeys(body) ==
    IF body.syntax = "form" THEN UNION {decode(p[1]) : p \in Pairs(body)} ELSE {}

\* C18 (as stated): for every (content type, body) parse_body yields one of
\* the five variants, and the same variant with the same fields when applied
\* again.
C18_TotalOriginal ==
    \A c \in Classified :
        /\ \A res \in c.result :
              res.err = OkResult /\ \E v \in res.body : v.variant \in Variants
        /\ \A a \in c.again : a \in c.result

\* C18 (amended): for every (content type, body) parse_body yields exactly
\* one outcome, the same when applied again: one of the five variants, or a
\* parse error.  The error is Internal exactly when form content cannot be
\* percent-decoded, it is Json only for JSON content or a form with a
\* payload key, and content that is neither JSON nor form never fails.
C18_OneOutcome ==
    \A c \in Classified :
        /\ \A res \in c.result :
            /\ \/ /\ res.err = OkResult
                  /\ \E v \in res.body : res.body = {v} /\ v.variant \in Variants
               \/ /\ res.err.kind \in {"Json", "Internal"}
                  /\ res.body = {}
            /\ res.err.kind = "Internal" <=> IsForm(c.headers) /\ Undecodable(c.body)
            /\ res.err.kind = "Json" =>
                  \/ IsJson(c.headers)
                  \/ IsForm(c.headers) /\ "payload" \in DecodedKeys(c.body)
            /\ ~IsJson(c.headers) /\ ~IsForm(c.headers) => res.err = OkResult
        /\ \A a \in c.again : a \in c.result

C18_Witness ==
    \E c \in Classified :
        /\ c.again # {} /\ c.again = c.result
        /\ \E res \in c.result : res.err.kind = "Internal"

\* C19: for form content (that percent-decodes) the variant is chosen by key
\* priority over the decoded keys: payload, then command, then code or
\* error, else Raw with the body as it was; the payload value is then parsed
\* as the Interactive variant, which is the only one of them that can fail.
\* Content that is neither JSON nor form yields Raw with the body as it was.
C19_KeyPriority ==
    \A c \in Classified : \A res \in c.result :
        LET keys == DecodedKeys(c.body)
            is(name) == res.err = OkResult /\ \E v \in res.body : v.variant = name
            raw == res = Parsed(Variant("Raw", c.body))
        IN  /\ IsForm(c.headers) /\ ~Undecodable(c.body) =>
                IF "payload" \in keys THEN is("Interactive") \/ res = ParseFailed(JsonErr)
                ELSE IF "command" \in keys THEN is("Command")
                ELSE IF "code" \in keys \/ "error" \in keys THEN is("OAuth")
                ELSE raw
            /\ ~IsJson(c.headers) /\ ~IsForm(c.headers) => raw

C19_Witness ==
    \E c \in Classified : \E res \in c.result :
        /\ IsForm(c.headers)
        /\ {"payload", "command", "code", "error"} \subseteq DecodedKeys(c.body)
        /\ res.err = OkResult /\ \E v \in res.body : v.variant = "Interactive"

\* C20: a form body with a command key (and no payload key) classifies as
\* Command whichever of the other ten fields it lacks, and every field whose
\* key it lacks is the empty string.
C20_MissingFieldsEmpty ==
    \A c \in Classified : \A res \in c.result :
        ( /\ IsForm(c.headers) /\ ~Undecodable(c.body)
          /\ "command" \in DecodedKeys(c.body)
          /\ "payload" \notin DecodedKeys(c.body) )
        => /\ res.err = OkResult
           /\ \E v \in res.body :
                /\ v.variant = "Command"
                /\ \A i \in 1..Len(CommandFields) :
                      CommandFields[i] \notin DecodedKeys(c.body) =>
                          v.value[CommandFields[i]] = ""

C20_Witness ==
    \E c \in Classified : \E res \in c.result :
        /\ c.body = FormOf(<<"command", "text">>)
        /\ \E v \in res.body :
              /\ v.variant = "Command"
              /\ v.value["channel_name"] = "" /\ v.value["command"] = "/deploy"

\* The classified body of a request, as an Option, and the handlers that are
\* registered for its discriminator: the event type, the command, the id of
\* its action
BodyOf(r) == parse_body(r.request.body, r.request.headers).body
Matching(b) ==
    CASE b.variant = "Event" ->
            unwrap_or(map_get(router.event_handlers, b.value.event_type), <<>>)
      [] b.variant = "Command" ->
            unwrap_or(map_get(router.command_handlers, b.value.command), <<>>)
      [] b.variant = "Interactive" /\ b.value.actions = <<"{a1}">> ->
            unwrap_or(map_get(router.action_handlers, "a1"), <<>>)
      [] OTHER -> <<>>

\* C21: a request that passed verification and classified as an Event with
\* a non-empty challenge is answered with HTTP 200 and the challenge body
\* holding that same string, and neither route_request nor a handler is
\* invoked for it, whatever is registered for its event type.
C21_ChallengeEchoed ==
    \A r \in Handled : \A b \in BodyOf(r) :
        ( /\ OutcomeOf(r).verify = OkResult
          /\ b.variant = "Event"
          /\ b.value.challenge \notin {{}, {""}} )
        => /\ \A c \in b.value.challenge :
                ResponseOf(r) = ApiResponse(200, {[kind |-> "Challenge", text |-> c]})
           /\ OutcomeOf(r).invoked = <<>>
           /\ ran = <<>>

C21_Witness ==
    \E r \in Handled : \E b \in BodyOf(r) :
        /\ OutcomeOf(r).verify = OkResult
        /\ b.variant = "Event"
        /\ b.value.challenge = {"ch-1"}
        /\ Len(Matching(b)) = MaxHandlers
        /\ ResponseOf(r).status_code = 200

\* The keys of the members of a JSON body
MemberKeys(body) == {body.pieces[i][1] : i \in 1..Len(body.pieces)}

\* C22: a JSON body that carries only the fields type and challenge,
\* correctly signed, is classified as an Event and answered with the
\* challenge echo, with no handler invoked.
C22_BareUrlVerification ==
    \A r \in Handled :
        ( /\ r.request.body.syntax = "json"
          /\ MemberKeys(r.request.body) = {"type", "challenge"}
          /\ IsJson(r.request.headers)
          /\ headers_get(r.request.headers, "x-slack-signature")
                = {sign(r.request.body, SentTimestamp, SigningSecret)}
          /\ headers_get(r.request.headers, "x-slack-request-timestamp")
                = {Str(SentTimestamp)} )
        => /\ OutcomeOf(r).variant = "Event"
           /\ OutcomeOf(r).invoked = <<>>
           /\ \A m \in json_members(r.request.body, "challenge") :
                ResponseOf(r) = ApiResponse(200, {[kind |-> "Challenge", text |-> m[3]]})

\* The requests that passed verification and were handed to route_request
Routed ==
    {r \in Handled : /\ OutcomeOf(r).verify = OkResult
                     /\ Len(OutcomeOf(r).invoked) = 2
                     /\ OutcomeOf(r).invoked[2] = "route_request"}

\* The names in ran that are names of one of the closures given
RanOf(closures) == SelectSeq(ran, LAMBDA n : \E c \in closures : c.name = n)

\* C23: for a verified Event, Command or Interactive request that is routed
\* and whose discriminator has no registered handler, route_request returns
\* no response and no error, no handler runs, and the answer is an empty
\* HTTP 200.
C23_UnmatchedIsEmpty200 ==
    \A r \in Routed : \A b \in BodyOf(r) :
        Matching(b) = <<>> =>
            /\ route_request([headers |-> r.request.headers, body |-> b]) = {}
            /\ OutcomeOf(r).err = OkResult
            /\ ran = <<>>
            /\ ResponseOf(r) = ApiResponse(200, {})

C23_Witness ==
    \E r \in Routed : \E b \in BodyOf(r) :
        /\ b.variant = "Command"
        /\ Matching(b) = <<>>
        /\ map_get(router.command_handlers, "/hello") # {}
        /\ ResponseOf(r) = ApiResponse(200, {})

\* C24: a correctly signed slash command whose command name has a registered
\* handler that acknowledges with the text T is answered with HTTP 200 and
\* the text body of T.
C24_CommandAckText ==
    \A r \in Routed : \A b \in BodyOf(r) :
        \A T \in {"Hello!"} :
            ( /\ b.variant = "Command"
              /\ Matching(b) # <<>>
              /\ \A i \in 1..Len(Matching(b)) : Matching(b)[i].returns = Ok(text(T)) )
            => ResponseOf(r) = ApiResponse(200, {[kind |-> "Text", text |-> T]})

\* C25: routing a request invokes every handler registered for its
\* discriminator exactly once, in registration order, and no other handler.
C25_AllMatchingInOrder ==
    \A r \in Routed : \A b \in BodyOf(r) :
        RanOf(Handlers) = [i \in 1..Len(Matching(b)) |-> Matching(b)[i].name]

\* C26: when the handlers registered for a discriminator are A, which returns
\* an error, and then B, B is still invoked and B's response is the response
\* of the request.
C26_ErrorDoesNotStopLater ==
    \A r \in Routed : \A b \in BodyOf(r) :
        ( /\ Len(Matching(b)) = 2
          /\ Matching(b)[1].returns.err # OkResult
          /\ Matching(b)[2].returns.err = OkResult )
        => /\ \E i \in 1..Len(ran) : ran[i] = Matching(b)[2].name
           /\ OutcomeOf(r).err = OkResult
           /\ \A resp \in Matching(b)[2].returns.response :
                ResponseOf(r) = to_api_gateway_response(resp)

\* C27: a dispatched non-OAuth request passes through the registered
\* middleware in registration order before the router is called; when a
\* middleware returns without calling next, no later middleware, no router
\* and no handler is invoked and what it returned is the outcome.
C27_MiddlewareAroundRouter ==
    \A r \in Handled :
        LET o == OutcomeOf(r)
            stops == {i \in 1..Len(middlewares) : ~middlewares[i].calls_next}
            last == IF stops = {} THEN Len(middlewares)
                    ELSE CHOOSE i \in stops : \A j \in stops : i <= j
        IN  ( /\ o.verify = OkResult
              /\ o.variant \in {"Event", "Command", "Interactive"}
              /\ \E b \in BodyOf(r) : b.variant = "Event" => b.value.challenge = {} )
            => /\ RanOf(Middlewares) = [i \in 1..last |-> middlewares[i].name]
               /\ stops # {} =>
                    /\ RanOf(Handlers) = <<>>
                    /\ \A i \in 1..Len(o.invoked) : o.invoked[i] # "route_request"
                    /\ o.err = middlewares[last].returns.err
                    /\ o.response = middlewares[last].returns.response

\* The entries of a Context's log that are calls on one capability
CallsOn(ctx, capability) ==
    {i \in 1..Len(ctx.log) : ctx.log[i].on = capability}

\* C28: whatever Ack methods are called on one request, at most one call
\* produces an acknowledgment response; a later call yields none.
C28_AtMostOneAck ==
    \A ctx \in context : \A r \in 1..Len(ctx.flags) :
        Cardinality({i \in CallsOn(ctx, "ack") :
                        /\ ctx.log[i].request = r
                        /\ ctx.log[i].result.response # {}}) <= 1

\* C29: Say can be called any number of times, before or after the
\* acknowledgment; every call returns Ok and is_acknowledged has the same
\* value before and after it.
C29_SayKeepsFlag ==
    \A ctx \in context : \A i \in CallsOn(ctx, "say") :
        /\ ctx.log[i].result.err = OkResult
        /\ ctx.log[i].after = ctx.log[i].before

C29_Witness ==
    \E ctx \in context : \E i, j \in CallsOn(ctx, "say") :
        /\ ~ctx.log[i].before /\ ~ctx.log[i].after
        /\ \E a \in CallsOn(ctx, "ack") : i < a /\ a < j
        /\ ctx.log[j].before /\ ctx.log[j].after

C31_CleanupRemovesExpired ==
    \A k \in cleanups :
        /\ k.left = {}
        /\ k.removed = Cardinality(k.expired)

\* C32: in every interleaving of concurrent complete calls that write one
\* (team id, enterprise id) key, cancellations included, each step leaves
\* under the key at most one record, and it is either what was there before
\* the step (a record or nothing) or entirely the Installation of one
\* complete call that was at its save; fields of two installations are
\* never mixed.
C32_WholeRecordPerKey ==
    [][\A k \in Keys :
         LET before == {i \in installation_table : ItemKey(i) = k}
             after  == {i \in installation_table' : ItemKey(i) = k}
         IN  /\ Cardinality(after) <= 1
             /\ \/ after = before
                \/ \E c \in CallIds :
                     /\ calls[c].pc = "save"
                     /\ after = {installation_to_item(x) :
                                   x \in calls[c].installation}]_vars

\* A call cancelled at its save left its Installation in the table, and a
\* concurrent call is about to save a different one under the same key
C32_Witness ==
    \E c, d \in CallIds :
        /\ calls[c].pc = "dropped at save"
        /\ calls[d].pc = "save"
        /\ \E x \in calls[d].installation, i \in installation_table :
              /\ ItemKey(i) = ItemKey(installation_to_item(x))
              /\ i # installation_to_item(x)

\* C33: the challenge short-circuit fires only for a non-empty challenge: a
\* request that passed verification and classified as an Event whose
\* challenge is absent or is the empty string is handed to route_request and
\* is not answered with a challenge body.
C33_ChallengeOnlyNonEmpty ==
    \A r \in Handled : \A b \in BodyOf(r) :
        ( /\ OutcomeOf(r).verify = OkResult
          /\ b.variant = "Event"
          /\ b.value.challenge \in {{}, {""}} )
        => /\ r \in Routed
           /\ \A body \in ResponseOf(r).body : body.kind # "Challenge"

\* C34: the acknowledgment flag of a request is monotone: is_acknowledged is
\* false on a freshly constructed Context, is true after every call of an
\* Ack method, the first included, and once true on an Ack it is true on it
\* after every later operation: further Ack calls, Say calls, cloning.
C34_AckFlagMonotone ==
    \A ctx \in context :
        /\ ctx.log = <<>> => \A h \in DOMAIN ctx.handles : ~Seen(ctx)[h]
        /\ \A i \in 1..Len(ctx.log) :
             /\ ctx.log[i].on = "new" => ~ctx.log[i].after
             /\ ctx.log[i].on = "ack" => ctx.log[i].after
             /\ \A j \in i..Len(ctx.log) : \A h \in DOMAIN ctx.log[i].seen_before :
                  /\ ctx.log[i].seen_before[h] => ctx.log[j].seen_after[h]
                  /\ ctx.log[i].seen_after[h] => ctx.log[j].seen_after[h]
                  /\ ctx.log[j].seen_after[h] => Seen(ctx)[h]

\* An Ack was acknowledged, then cloned, and a later Ack call found the flag
\* set on the clone
C34_Witness ==
    \E ctx \in context : \E i, j, k \in 1..Len(ctx.log) :
        /\ i < j /\ j < k
        /\ ctx.log[i].on = "ack" /\ ~ctx.log[i].before /\ ctx.log[i].after
        /\ ctx.log[j].on = "clone" /\ ctx.log[j].after
        /\ ctx.log[k].on = "ack" /\ ctx.log[k].handle = ctx.log[j].handle
        /\ ctx.log[k].before /\ ctx.log[k].after

\* C35: the acknowledgment guard is per request: an Ack call on the Context
\* of one request, or on a clone of its Ack, leaves is_acknowledged of every
\* Ack of another request as it was, and shows on every clone of the Ack of
\* its own request.
C35_AckFlagPerRequest ==
    \A ctx \in context : \A i \in CallsOn(ctx, "ack") :
        \A h \in DOMAIN ctx.log[i].seen_before :
            IF ctx.handles[h].request = ctx.log[i].request
            THEN ctx.log[i].seen_after[h]
            ELSE ctx.log[i].seen_after[h] = ctx.log[i].seen_before[h]

\* Two requests and a clone of the Ack of one: the Ack call shows on the
\* clone and not on the Ack of the other request
C35_Witness ==
    \E ctx \in context : \E i \in CallsOn(ctx, "ack") :
        \E g, h \in DOMAIN ctx.log[i].seen_before :
            /\ g # ctx.log[i].handle
            /\ ctx.handles[g].request = ctx.log[i].request
            /\ ~ctx.log[i].seen_before[g] /\ ctx.log[i].seen_after[g]
            /\ ctx.handles[h].request # ctx.log[i].request
            /\ ~ctx.log[i].seen_after[h]

\* C36: the Installation persisted by a successful complete reflects the
\* token-exchange response: it has a bot token and a bot user id exactly
\* when the response carries a bot access token, a user token and a user id
\* exactly when the response carries a user access token, an enterprise id
\* exactly when the response names an enterprise, and its scopes and
\* user_scopes are the scopes the response granted; and that Installation is
\* what save writes.
C36_InstallationReflectsReply ==
    [][\A c \in CallIds :
         /\ \A reply \in GrantReplies :
              Exchange(c, reply) =>
                \A inst \in calls'[c].installation :
                    /\ reply.access_token # None
                         <=> (inst.bot_token # None /\ inst.bot_user_id # None)
                    /\ reply.access_token # None => inst.bot_token = reply.access_token
                    /\ reply.user_token # None
                         <=> (inst.user_token # None /\ inst.user_id # None)
                    /\ reply.user_token # None => inst.user_token = reply.user_token
                    /\ inst.enterprise_id = reply.enterprise
                    /\ inst.scopes = reply.scope
                    /\ inst.user_scopes = reply.user_scope
         /\ Save(c) =>
              \A inst \in calls[c].installation :
                  installation_to_item(inst) \in installation_table']_vars

\* C37: installations with different (team id, optional enterprise id) pairs
\* never share a storage key: the table holds one record for each pair that
\* has an installation saved and not deleted, the one of no enterprise and
\* the one of the enterprise "NONE" of a team included, and find_by_team for
\* a pair returns the installation last saved for that pair, by its pair and
\* its tokens, and nothing when there is none, whatever was saved or deleted
\* for other pairs.
C37_PairsDoNotShareKeys ==
    /\ Cardinality(installation_table)
         = Cardinality({p \in StorePairs : last_installed[p] # {}})
    /\ \A p \in StorePairs :
         LET found == find_by_team(installation_table, p[1], p[2])
         IN  /\ last_installed[p] = {} => found = {}
             /\ \A i \in last_installed[p] :
                  \E f \in found :
                      /\ f.team_id = i.team_id
                      /\ f.enterprise_id = i.enterprise_id
                      /\ f.bot_token = i.bot_token
                      /\ f.user_token = i.user_token

\* C38: installation storage round-trips: save(i) followed by
\* find_by_team(i.team_id, i.enterprise_id) returns an Installation with the
\* team id, enterprise id, tokens, user ids, scopes and user_scopes of i,
\* also for an i with an empty scopes or user_scopes list or no enterprise
\* id.
C38_SaveFindRoundTrip ==
    \A l \in lookups : \A i \in l.after_save :
        ( /\ l.op = "find"
          /\ l.team_id = i.team_id
          /\ l.enterprise_id = i.enterprise_id )
        => \E f \in l.found :
              /\ f.team_id = i.team_id
              /\ f.enterprise_id = i.enterprise_id
              /\ f.bot_token = i.bot_token /\ f.bot_user_id = i.bot_user_id
              /\ f.user_token = i.user_token /\ f.user_id = i.user_id
              /\ f.scopes = i.scopes
              /\ f.user_scopes = i.user_scopes

\* The errors with which process_request fails on the requests of the
\* model, and the responses handle_request gives to the requests it fails on
FailedWith ==
    {process_request(settings, SigningSecret, q).err :
        settings \in {"Some", "None"}, q \in Requests} \ {OkResult}
FailedResponses ==
    {handle_request(x[1], SigningSecret, x[2]) :
        x \in {y \in {"Some", "None"} \X Requests :
                 process_request(y[1], SigningSecret, y[2]).err # OkResult}}

\* C39: whenever processing a request ends in an error, whatever the error
\* and whatever the request, its headers and the secret it was signed with,
\* the answer is HTTP 500 with the one fixed body "Internal Server Error":
\* nothing of the error is in the response.
C39_ErrorsAnsweredAlike ==
    \A r \in Handled :
        OutcomeOf(r).err # OkResult =>
            /\ ResponseOf(r).status_code = 500
            /\ ResponseOf(r).body = {[kind |-> "Plain", text |-> "Internal Server Error"]}
            /\ FailedResponses = {ResponseOf(r)}

\* A request failed with an error that has a message of its own, and
\* requests fail with another error, too
C39_Witness ==
    \E r \in Handled :
        /\ OutcomeOf(r).err.kind = "Internal"
        /\ OutcomeOf(r).err.msg # ""
        /\ JsonErr \in FailedWith
        /\ ResponseOf(r) \in FailedResponses

====
